---- MODULE Spec2Model ----
(***************************************************************************)
(* FlashMind: the chunker of backend_flask/services/file_service.py        *)
(* (extract_text_chunks) and the aggregation loop of the /upload endpoint  *)
(* of backend_flask/routes/upload_routes.py, as state machines.            *)
(*                                                                         *)
(* A Python str is a sequence of one-character strings.                    *)
(***************************************************************************)
EXTENDS Integers, Sequences, FiniteSets, TLC

\* "page": None. Page numbers are 1-based, and None is falsy as 0 is.
NoPage == 0

\* A heading that is None. A heading that is a str is never empty.
NoHeading == <<>>

Min(a, b) == IF a <= b THEN a ELSE b

(***************************************************************************)
(* Bounds of the model.                                                    *)
(***************************************************************************)
MaxParas == 3
MaxChunkChars == 5
MaxOverlap == 2
MaxPage == 2
MaxChunks == 2
MaxCards == 2
MaxQuota == 2
MaxHeadingParas == 3
MaxCandidates == 2
MaxParseQ == 2

MaxLines == 3

MaxTextLen == 4

MaxChunkSize == 3

MaxChunkList == 4

MaxDefs == 12

MaxOthers == 1

MaxNegQ == 1

MaxReqQ == 11

MaxAttempts == 3

MaxDocChunks == 3

MaxCardsPerChunk == 2

(***************************************************************************)
(* Strings.                                                                *)
(***************************************************************************)
\* str.strip() with no argument strips whitespace.
Whitespace == {" ", "\n", "\t", "\r"}

\* The argument of the final c["text"].strip(" \n\t-:;,.()[]{}").
TrimChars == {" ", "\n", "\t", "-", ":", ";", ",", ".", "(", ")", "[", "]", "{", "}"}

\* [a-z] of re.match(r"^[a-z]", nxt).
LowerLetters ==
  {"a", "b", "c", "d", "e", "f", "g", "h", "i", "j", "k", "l", "m",
   "n", "o", "p", "q", "r", "s", "t", "u", "v", "w", "x", "y", "z"}

RECURSIVE LStripSet(_, _)
LStripSet(s, set) ==
  IF s # <<>> /\ Head(s) \in set THEN LStripSet(Tail(s), set) ELSE s

RECURSIVE RStripSet(_, _)
RStripSet(s, set) ==
  IF s # <<>> /\ s[Len(s)] \in set THEN RStripSet(SubSeq(s, 1, Len(s) - 1), set) ELSE s

\* s.strip(chars)
StripSet(s, set) == RStripSet(LStripSet(s, set), set)

\* s.strip()
Strip(s) == StripSet(s, Whitespace)

\* re.match(r"^[a-z]", s)
StartsLower(s) == s # <<>> /\ Head(s) \in LowerLetters

\* sep.join(parts)
RECURSIVE Join(_, _)
Join(parts, sep) ==
  IF parts = <<>> THEN <<>>
  ELSE IF Len(parts) = 1 THEN parts[1]
  ELSE parts[1] \o sep \o Join(Tail(parts), sep)

ParaSep == <<"\n", "\n">>

\* s[-k:] for 0 < k < len(s)
LastChars(s, k) == SubSeq(s, Len(s) - k + 1, Len(s))

\* sum(len(t) for t in texts)
RECURSIVE SumLen(_)
SumLen(texts) == IF texts = <<>> THEN 0 ELSE Len(Head(texts)) + SumLen(Tail(texts))

\* next((p for p in pages if p is not None), None)
FirstPage(pages) == IF pages = <<>> THEN NoPage ELSE pages[1]

\* next((p for p in reversed(pages) if p is not None), None)
LastPage(pages) == IF pages = <<>> THEN NoPage ELSE pages[Len(pages)]

(***************************************************************************)
(* extract_text_chunks: the inputs.                                        *)
(***************************************************************************)
\* len(cur_text) < 150 of the short-paragraph pre-merge
SHORT_PARA_CHARS == 150

\* A paragraph that is not short: SHORT_PARA_CHARS characters.
LongPara == [i \in 1..SHORT_PARA_CHARS |-> "a"]

\* Cleaned paragraph texts: what clean_text returns is non-empty and
\* stripped of whitespace at both ends.
ParaTexts ==
  { <<"a", "b">>, <<"B", " ", "C">>, <<".">>, LongPara }

\* Page numbers: None for every paragraph (DOCX, PPTX, TXT), or the
\* 1-based page of each paragraph in page order (PDF).
PageSeqs(n) ==
  { [i \in 1..n |-> NoPage] } \cup
  { ps \in [1..n -> 1..MaxPage] : \A i \in 1..(n - 1) : ps[i] <= ps[i + 1] }

VARIABLES
  cleaned_paras,    \* list of {"text", "page"}
  max_chunk_chars,
  overlap_chars,
  merged_paras,     \* after the short-paragraph pre-merge
  merged_src,       \* history: the cleaned paragraphs joined into each merged one
  headings_map,
  chunks,           \* list of {"chunk_id", "text", "heading", "page_start", "page_end"}
  chunk_trace,      \* history, per chunk: text before trimming, seed, paragraphs
  chunk_buf,
  chunk_pages,
  chunk_headings,
  current_len,
  buf_seed,         \* history: the overlap text that seeded chunk_buf
  buf_src,          \* history: the merged paragraphs appended to chunk_buf
  idx,              \* position of the chunk loop in merged_paras (1-based)
  cpc,              \* position in extract_text_chunks
  \* upload()
  upload_chunks,    \* chunks: len(text) of each chunk returned by extract_text_chunks
  max_q_total,
  remote_url,       \* whether ML_SERVICE_URL is set
  mongo_available,  \* db_service._mongo_available
  enable_file_db,   \* ENABLE_FILE_DB
  mgr,
  chunk_i,          \* position of the loop over chunks (1-based)
  attempt,          \* attempt of _call_model_with_retries
  fcs_chunk,
  card_j,           \* position of the loop over fcs_chunk (1-based)
  aggregated,
  seen_pairs,
  chunks_processed,
  record,
  persisted,        \* where save_generated stored the record
  response,
  upc,              \* position in upload()
  agg_origin,       \* history, per aggregated card: its chunk and generation path
  offered,          \* history: the pairs of all candidates of the chunks consumed
  failed,           \* history: the chunks whose model call gave no candidates
  gen_chunks,       \* history: the chunks generation was called for, in call order
  \* one call of a function of file_service or of ModelManager
  fn,               \* the function called
  fn_args,          \* its arguments
  fn_ret,           \* its return value
  fpc,              \* position in the function
  strategy,         \* history: the parser strategy that produced fn_ret
  validated,        \* validated of generate_flashcards: validate_flashcards(parsed)
  locals,           \* the local variables of the function called
  \* upload_document, process_document_task and stream_flashcards of one deck
  processing_status, \* processing_status.get(deck_id): 0 (absent) or the dict it holds
  status_of,        \* per dict: its "status"
  tpc,              \* position in upload_document and process_document_task
  total_chunks,     \* len(chunks)
  task_i,           \* position of the loop over chunks (1-based)
  all_cards,        \* len(all_cards_data)
  deck_committed,   \* whether the Deck row is committed
  db_cards,         \* the number of committed Flashcard rows of the deck, ids 1..db_cards
  spc,              \* position in event_generator
  stream_status,    \* status of event_generator: the dict it read
  last_count,
  timeout_count,
  sent              \* history: the ids of the 'card' events sent, in order

cvars ==
  << cleaned_paras, max_chunk_chars, overlap_chars, merged_paras, merged_src,
     headings_map, chunks, chunk_trace, chunk_buf, chunk_pages, chunk_headings,
     current_len, buf_seed, buf_src, idx, cpc >>

uvars ==
  << upload_chunks, max_q_total, remote_url, mongo_available, enable_file_db, mgr,
     chunk_i, attempt, fcs_chunk, card_j, aggregated, seen_pairs, chunks_processed,
     record, persisted, response, upc, agg_origin, offered, failed, gen_chunks >>

mvars == << fn, fn_args, fn_ret, fpc, strategy, validated >>

lvars == << locals >>

svars ==
  << processing_status, status_of, tpc, total_chunks, task_i, all_cards, deck_committed,
     db_cards, spc, stream_status, last_count, timeout_count, sent >>

vars == << cvars, uvars, mvars, lvars, svars >>

(***************************************************************************)
(* extract_text_chunks: the short-paragraph pre-merge.                     *)
(***************************************************************************)
\* cur.get("page") or nxt.get("page")
PageOr(p, q) == IF p # NoPage THEN p ELSE q

\* The while loop over cleaned_paras from position i: the merged
\* paragraphs, each with the positions of the cleaned paragraphs in it.
RECURSIVE MergeFrom(_, _)
MergeFrom(paras, i) ==
  IF i > Len(paras) THEN <<>>
  ELSE IF /\ Len(paras[i].text) < SHORT_PARA_CHARS
          /\ i + 1 <= Len(paras)
          /\ StartsLower(paras[i + 1].text)
       THEN << [text |-> paras[i].text \o <<" ">> \o paras[i + 1].text,
                page |-> PageOr(paras[i].page, paras[i + 1].page),
                src  |-> <<i, i + 1>>] >> \o MergeFrom(paras, i + 2)
       ELSE << [text |-> paras[i].text, page |-> paras[i].page, src |-> <<i>>] >>
              \o MergeFrom(paras, i + 1)

\* The merge started one paragraph too late.
MergeShortParasFromSecond(paras) == MergeFrom(paras, 2)

MergeShortParas(paras) == MergeFrom(paras, 1)

(***************************************************************************)
(* _is_heading_line and detect_headings_and_map.                           *)
(***************************************************************************)
UpperSeq ==
  << "A", "B", "C", "D", "E", "F", "G", "H", "I", "J", "K", "L", "M",
     "N", "O", "P", "Q", "R", "S", "T", "U", "V", "W", "X", "Y", "Z" >>

LowerSeq ==
  << "a", "b", "c", "d", "e", "f", "g", "h", "i", "j", "k", "l", "m",
     "n", "o", "p", "q", "r", "s", "t", "u", "v", "w", "x", "y", "z" >>

UpperLetters == { UpperSeq[i] : i \in 1..26 }

Digits == {"0", "1", "2", "3", "4", "5", "6", "7", "8", "9"}

\* \w
WordChars == UpperLetters \cup LowerLetters \cup Digits \cup {"_"}

\* c.lower()
LowerChar(c) ==
  IF c \in UpperLetters THEN LowerSeq[CHOOSE i \in 1..26 : UpperSeq[i] = c] ELSE c

\* s.lower()
Lower(s) == [i \in 1..Len(s) |-> LowerChar(s[i])]

\* The positions at which sep occurs in s.
Occurrences(s, sep) ==
  { i \in 1..(Len(s) - Len(sep) + 1) : SubSeq(s, i, i + Len(sep) - 1) = sep }

\* s.split(sep)
RECURSIVE Split(_, _)
Split(s, sep) ==
  IF Occurrences(s, sep) = {} THEN <<s>>
  ELSE LET i == CHOOSE k \in Occurrences(s, sep) : \A m \in Occurrences(s, sep) : k <= m
       IN  <<SubSeq(s, 1, i - 1)>> \o Split(SubSeq(s, i + Len(sep), Len(s)), sep)

\* [f(p) for p in parts if p.strip()] with f = strip
RECURSIVE StripNonBlank(_)
StripNonBlank(parts) ==
  IF parts = <<>> THEN <<>>
  ELSE IF Strip(Head(parts)) = <<>> THEN StripNonBlank(Tail(parts))
  ELSE <<Strip(Head(parts))>> \o StripNonBlank(Tail(parts))

\* s.splitlines()[0] of a non-empty s
FirstLine(s) == Split(s, <<"\n">>)[1]

\* The positions at which the words of s.split() start.
WordStarts(s) ==
  { i \in 1..Len(s) : s[i] \notin Whitespace /\ (i = 1 \/ s[i - 1] \in Whitespace) }

\* s.isupper(): no lowercase letter and at least one uppercase letter
IsUpperStr(s) ==
  /\ \A i \in 1..Len(s) : s[i] \notin LowerLetters
  /\ \E i \in 1..Len(s) : s[i] \in UpperLetters

HeadingWords ==
  << <<"M", "o", "d", "u", "l", "e">>, <<"C", "h", "a", "p", "t", "e", "r">>,
     <<"S", "e", "c", "t", "i", "o", "n">>, <<"U", "n", "i", "t">>,
     <<"T", "o", "p", "i", "c">> >>

\* Whether ^(word)\b matches line, ignoring case.
StartsWithWord(line, word) ==
  /\ Len(line) >= Len(word)
  /\ Lower(SubSeq(line, 1, Len(word))) = Lower(word)
  /\ (Len(line) = Len(word) \/ line[Len(word) + 1] \notin WordChars)

\* _is_heading_line: the normalized heading, or None.
IsHeadingLine(line) ==
  IF Len(line) < 3 THEN NoHeading
  ELSE IF \E w \in 1..Len(HeadingWords) : StartsWithWord(line, HeadingWords[w])
  THEN LET w    == CHOOSE k \in 1..Len(HeadingWords) : StartsWithWord(line, HeadingWords[k])
           left == HeadingWords[w]
           \* [:\s\-]*(.*)$ then .strip()
           rest == Strip(LStripSet(SubSeq(line, Len(left) + 1, Len(line)),
                                   Whitespace \cup {":", "-"}))
           heading == IF rest # <<>> THEN left \o <<" ">> \o rest ELSE left
       IN  StripSet(heading, {" ", "-", ":", "\t", "\n"})
  ELSE IF /\ 1 < Cardinality(WordStarts(line))
          /\ Cardinality(WordStarts(line)) <= 8
          /\ \/ IsUpperStr(line)
             \/ \A i \in WordStarts(line) : line[i] \in UpperLetters
       THEN Strip(line)
       ELSE NoHeading

\* The loop with current_heading forgotten after each paragraph.
RECURSIVE HeadingsFromNotCarried(_, _, _)
HeadingsFromNotCarried(paras, i, current) ==
  IF i > Len(paras) THEN <<>>
  ELSE << [para_index |-> i - 1, heading |-> IsHeadingLine(FirstLine(paras[i]))] >>
         \o HeadingsFromNotCarried(paras, i + 1, current)

\* The loop of detect_headings_and_map over paras, current_heading carried.
RECURSIVE HeadingsFrom(_, _, _)
HeadingsFrom(paras, i, current) ==
  IF i > Len(paras) THEN <<>>
  ELSE LET h   == IsHeadingLine(FirstLine(paras[i]))
           cur == IF h # NoHeading THEN h ELSE current
       IN  << [para_index |-> i - 1, heading |-> cur] >> \o HeadingsFrom(paras, i + 1, cur)

detect_headings_and_map(text) ==
  HeadingsFrom(StripNonBlank(Split(text, ParaSep)), 1, NoHeading)

\* headings_map of extract_text_chunks (detect_headings is True): entry idx
\* is idx_to_heading.get(idx).
HeadingsMap(merged) ==
  LET combined == Join([i \in 1..Len(merged) |-> merged[i].text], ParaSep)
      mapping  == detect_headings_and_map(combined)
  IN  [i \in 1..Len(merged) |->
         IF \E m \in 1..Len(mapping) : mapping[m].para_index = i - 1
         THEN mapping[CHOOSE m \in 1..Len(mapping) : mapping[m].para_index = i - 1].heading
         ELSE NoHeading]

(***************************************************************************)
(* Flashcards. A card is the dict {question, answer, keywords, confidence};*)
(* confidence is in thousandths (0.45 is 450). validated is history: the   *)
(* card came out of ModelManager.validate_flashcards.                      *)
(***************************************************************************)
\* A dict with no "confidence" key.
NoConfidence == -1

\* A card as ModelManager.generate_flashcards returns it on the model path
\* (validated, and scored 0.55: no keywords yet, a short answer, not a
\* "What is" question).
ModelCard ==
  [ question |-> <<"q">>, answer |-> <<"x">>, keywords |-> <<>>,
    confidence |-> 550, validated |-> TRUE ]

\* Cards as enhanced_rule_based_generate returns them: no confidence. The
\* first has the pair of ModelCard in another case; the last has an empty
\* answer (a definition sentence that ends with its pattern).
RuleCardSameCase ==
  [ question |-> <<"Q">>, answer |-> <<"X">>, keywords |-> <<>>,
    confidence |-> NoConfidence, validated |-> FALSE ]

RuleCard ==
  [ question |-> <<"s">>, answer |-> <<"z">>, keywords |-> << <<"z">> >>,
    confidence |-> NoConfidence, validated |-> FALSE ]

RuleCardEmpty ==
  [ question |-> <<"t">>, answer |-> <<>>, keywords |-> <<>>,
    confidence |-> NoConfidence, validated |-> FALSE ]

\* A card as ModelManager.fallback_rule_based normalizes it: confidence 0.5.
FallbackCard ==
  [ question |-> <<"r">>, answer |-> <<"y">>, keywords |-> <<>>,
    confidence |-> 500, validated |-> FALSE ]

\* What enhanced_rule_based_generate may return for a chunk.
RuleCards == { RuleCardSameCase, RuleCard, RuleCardEmpty }

\* What the remote ML service (/generate of ml_service/app.py) may return:
\* cards of generate_flashcards or of enhanced_rule_based_generate.
RemoteCards == { ModelCard, FallbackCard, RuleCardSameCase }

\* The lists of at most n cards of a set.
CardLists(cards, n) == UNION { [1..k -> cards] : k \in 0..n }

(***************************************************************************)
(* ModelManager.validate_flashcards and _score_confidence.                 *)
(***************************************************************************)
\* re.sub(r'\s+', ' ', s): the first character of every run of whitespace is
\* kept, as a space.
CollapseWhitespace(s) ==
  LET keep == SelectSeq([i \in 1..Len(s) |-> i],
                        LAMBDA i : s[i] \notin Whitespace \/ i = 1 \/ s[i - 1] \notin Whitespace)
  IN  [k \in 1..Len(keep) |-> IF s[keep[k]] \in Whitespace THEN " " ELSE s[keep[k]]]

\* The last position of the run of characters of set that starts at i
\* (i - 1 when there is none).
RunEnd(s, i, set) ==
  LET js == { j \in i..Len(s) : \A k \in i..j : s[k] \in set }
  IN  IF js = {} THEN i - 1 ELSE CHOOSE j \in js : \A m \in js : m <= j

\* Where a match of page\s+\d+ (ignoring case) that starts at i ends, or 0.
PageMarkerEnd(s, i) ==
  IF i + 3 <= Len(s) /\ Lower(SubSeq(s, i, i + 3)) = <<"p", "a", "g", "e">>
  THEN LET w == RunEnd(s, i + 4, Whitespace)
           d == RunEnd(s, w + 1, Digits)
       IN  IF w >= i + 4 /\ d >= w + 1 THEN d ELSE 0
  ELSE 0

\* re.sub(r'page\s+\d+', '', s, flags=re.I)
RECURSIVE RemovePageMarkers(_)
RemovePageMarkers(s) ==
  LET starts == { i \in 1..Len(s) : PageMarkerEnd(s, i) > 0 }
  IN  IF starts = {} THEN s
      ELSE LET i == CHOOSE k \in starts : \A m \in starts : k <= m
           IN  SubSeq(s, 1, i - 1)
                 \o RemovePageMarkers(SubSeq(s, PageMarkerEnd(s, i) + 1, Len(s)))

\* if len(a) > 4000: a = a[:4000]
MAX_ANSWER_CHARS == 4000

Truncate(a) == IF Len(a) > MAX_ANSWER_CHARS THEN SubSeq(a, 1, MAX_ANSWER_CHARS) ELSE a

\* The score with "what is" matched in the case of the question as given.
ScoreConfidenceCaseSensitive(q, a, keywords) ==
  LET kw    == IF keywords # <<>> THEN 200 ELSE 0
      len   == IF 50 <= Len(a) /\ Len(a) <= 800 THEN 200 ELSE 0
      what  == IF Len(q) >= 7 /\ SubSeq(q, 1, 7) = <<"w", "h", "a", "t", " ", "i", "s">>
               THEN -100 ELSE 50
  IN  500 + kw + len + what

\* A scorer that gives the "what is" question the bonus of the other questions.
ScoreConfidenceWithoutPenalty(q, a, keywords) ==
  LET kw  == IF keywords # <<>> THEN 200 ELSE 0
      len == IF 50 <= Len(a) /\ Len(a) <= 800 THEN 200 ELSE 0
  IN  500 + kw + len + 50

\* _score_confidence, in thousandths
ScoreConfidence(q, a, keywords) ==
  LET base  == 500
      kw    == IF keywords # <<>> THEN 200 ELSE 0
      len   == IF 50 <= Len(a) /\ Len(a) <= 800 THEN 200 ELSE 0
      what  == IF StartsWithWord(Lower(q), <<"w", "h", "a", "t", " ", "i", "s">>)
               THEN -100 ELSE 50
      score == base + kw + len + what
  IN  IF score < 0 THEN 0 ELSE IF score > 1000 THEN 1000 ELSE score

\* The sanitized question and answer of validate_flashcards.
SanitizeQuestion(q) == CollapseWhitespace(Strip(q))

SanitizeAnswer(a) == Truncate(RemovePageMarkers(CollapseWhitespace(Strip(a))))

\* The loop with the key (q, a) not lowercased.
RECURSIVE ValidateFromCaseSensitive(_, _)
ValidateFromCaseSensitive(fcs, seen) ==
  IF fcs = <<>> THEN <<>>
  ELSE LET item == Head(fcs)
           q    == SanitizeQuestion(item.question)
           a    == SanitizeAnswer(item.answer)
           key  == <<q, a>>
       IN  IF Strip(item.question) = <<>> \/ Strip(item.answer) = <<>> \/ key \in seen
           THEN ValidateFromCaseSensitive(Tail(fcs), seen)
           ELSE << [ question |-> q, answer |-> a, keywords |-> item.keywords,
                     confidence |-> ScoreConfidence(q, a, item.keywords),
                     validated |-> TRUE ] >>
                  \o ValidateFromCaseSensitive(Tail(fcs), seen \cup {key})

\* The loop of validate_flashcards over fcs, with the set seen.
RECURSIVE ValidateFrom(_, _)
ValidateFrom(fcs, seen) ==
  IF fcs = <<>> THEN <<>>
  ELSE LET item == Head(fcs)
           q    == SanitizeQuestion(item.question)
           a    == SanitizeAnswer(item.answer)
           key  == <<Lower(q), Lower(a)>>
       IN  IF Strip(item.question) = <<>> \/ Strip(item.answer) = <<>> \/ key \in seen
           THEN ValidateFrom(Tail(fcs), seen)
           ELSE << [ question |-> q, answer |-> a, keywords |-> item.keywords,
                     confidence |-> ScoreConfidence(q, a, item.keywords),
                     validated |-> TRUE ] >>
                  \o ValidateFrom(Tail(fcs), seen \cup {key})

ValidateFlashcards(fcs) == ValidateFrom(fcs, {})

\* ModelManager.fallback_rule_based: the rule-based cards, normalized.
FallbackRuleBased(res) ==
  [ i \in 1..Len(res) |->
      [ question |-> Strip(res[i].question), answer |-> Strip(res[i].answer),
        keywords |-> res[i].keywords, confidence |-> 500, validated |-> FALSE ] ]

(***************************************************************************)
(* json.loads, for the JSON that the model outputs below are made of:      *)
(* strings without escapes, unsigned integers, objects of these, and       *)
(* arrays of these and of such objects (no deeper nesting). A value is     *)
(* [type, text] (a string or a number), [type, items] (a list) or          *)
(* [type, keys, vals] (a dict).                                            *)
(***************************************************************************)
\* The first position at or after i that holds no JSON whitespace.
SkipWs(s, i) == RunEnd(s, i, {" ", "\t", "\n", "\r"}) + 1

JsonFail == [ok |-> FALSE, val |-> [type |-> "none"], next |-> 0]

JsonOk(v, n) == [ok |-> TRUE, val |-> v, next |-> n]

\* A string that starts with the quote at i: up to the next quote, with no
\* control character and no backslash in between.
ParseString(s, i) ==
  LET closes == { j \in (i + 1)..Len(s) : s[j] = "\"" }
  IN  IF closes = {} THEN JsonFail
      ELSE LET j == CHOOSE k \in closes : \A m \in closes : k <= m
           IN  IF \E k \in (i + 1)..(j - 1) : s[k] \in {"\n", "\r", "\t", "\\"}
               THEN JsonFail
               ELSE JsonOk([type |-> "str", text |-> SubSeq(s, i + 1, j - 1)], j + 1)

\* An integer that starts with the digit at i: 0 or [1-9]\d*.
ParseNumber(s, i) ==
  LET d == IF s[i] = "0" THEN i ELSE RunEnd(s, i, Digits)
  IN  JsonOk([type |-> "num", text |-> SubSeq(s, i, d)], d + 1)

\* The string or number that starts at position i of s.
ParseScalar(s, i) ==
  IF i > Len(s) THEN JsonFail
  ELSE IF s[i] = "\"" THEN ParseString(s, i)
  ELSE IF s[i] \in Digits THEN ParseNumber(s, i)
  ELSE JsonFail

RECURSIVE ParseMembers(_, _, _, _)

\* After the value of a member: "}" ends the object, "," brings the next
\* member.
MemberSeparator(s, j, keys, vals) ==
  IF j > Len(s) THEN JsonFail
  ELSE IF s[j] = "}" THEN JsonOk([type |-> "dict", keys |-> keys, vals |-> vals], j + 1)
  ELSE IF s[j] = "," THEN ParseMembers(s, SkipWs(s, j + 1), keys, vals)
  ELSE JsonFail

\* The value v of a member.
MemberValue(s, v, keys, vals) ==
  IF ~v.ok THEN JsonFail
  ELSE MemberSeparator(s, SkipWs(s, v.next), keys, Append(vals, v.val))

\* The colon at position c after the key of a member.
MemberColon(s, c, keys, vals) ==
  IF c > Len(s) \/ s[c] # ":" THEN JsonFail
  ELSE MemberValue(s, ParseScalar(s, SkipWs(s, c + 1)), keys, vals)

\* The key k of a member: a string.
MemberKey(s, k, keys, vals) ==
  IF ~k.ok \/ k.val.type # "str" THEN JsonFail
  ELSE MemberColon(s, SkipWs(s, k.next), Append(keys, k.val.text), vals)

\* The members of an object from position i, after the members keys, vals.
ParseMembers(s, i, keys, vals) == MemberKey(s, ParseScalar(s, i), keys, vals)

\* The object whose opening brace is at position i, or a scalar.
ParseObject(s, i) ==
  IF i > Len(s) \/ s[i] # "{" THEN ParseScalar(s, i)
  ELSE IF SkipWs(s, i + 1) <= Len(s) /\ s[SkipWs(s, i + 1)] = "}"
  THEN JsonOk([type |-> "dict", keys |-> <<>>, vals |-> <<>>], SkipWs(s, i + 1) + 1)
  ELSE ParseMembers(s, SkipWs(s, i + 1), <<>>, <<>>)

RECURSIVE ParseElements(_, _, _)

\* After an element: "]" ends the array, "," brings the next element.
ElementSeparator(s, j, acc) ==
  IF j > Len(s) THEN JsonFail
  ELSE IF s[j] = "]" THEN JsonOk([type |-> "list", items |-> acc], j + 1)
  ELSE IF s[j] = "," THEN ParseElements(s, SkipWs(s, j + 1), acc)
  ELSE JsonFail

\* The element v of an array.
ElementValue(s, v, acc) ==
  IF ~v.ok THEN JsonFail ELSE ElementSeparator(s, SkipWs(s, v.next), Append(acc, v.val))

\* The elements of an array from position i, after the elements acc.
ParseElements(s, i, acc) == ElementValue(s, ParseObject(s, i), acc)

\* The value that starts at position i of s.
ParseValue(s, i) ==
  IF i > Len(s) \/ s[i] # "[" THEN ParseObject(s, i)
  ELSE IF SkipWs(s, i + 1) <= Len(s) /\ s[SkipWs(s, i + 1)] = "]"
  THEN JsonOk([type |-> "list", items |-> <<>>], SkipWs(s, i + 1) + 1)
  ELSE ParseElements(s, SkipWs(s, i + 1), <<>>)

\* The document is the value v and whitespace after it, or it is in error.
WholeDocument(s, v) == IF v.ok /\ SkipWs(s, v.next) > Len(s) THEN v ELSE JsonFail

\* json.loads(s): the value, or ok = FALSE for the exception.
JsonLoads(s) == WholeDocument(s, ParseValue(s, SkipWs(s, 1)))

(***************************************************************************)
(* ModelManager.parse_model_output and its helpers.                        *)
(***************************************************************************)
\* s.replace(old, new) for a single character old
\* re.sub(r"see above", "", s, flags=re.I)
RECURSIVE RemoveSeeAbove(_)
RemoveSeeAbove(s) ==
  LET pat    == <<"s", "e", "e", " ", "a", "b", "o", "v", "e">>
      starts == { i \in 1..(Len(s) - 8) : Lower(SubSeq(s, i, i + 8)) = pat }
  IN  IF starts = {} THEN s
      ELSE LET i == CHOOSE k \in starts : \A m \in starts : k <= m
           IN  SubSeq(s, 1, i - 1) \o RemoveSeeAbove(SubSeq(s, i + 9, Len(s)))

\* The sanitized output: s of parse_model_output.
SanitizeRaw(raw) ==
  RemovePageMarkers(RemoveSeeAbove([i \in 1..Len(raw) |-> IF raw[i] = "\r" THEN "\n" ELSE raw[i]]))

\* item.get(key, ''): the value of the last member with that key.
DictGet(d, key) ==
  LET ks == { k \in 1..Len(d.keys) : d.keys[k] = key }
  IN  IF ks = {} THEN [type |-> "str", text |-> <<>>]
      ELSE d.vals[CHOOSE k \in ks : \A m \in ks : m <= k]

\* str(v).strip() of a string or a number (the outputs below hold no other
\* value under "question" and "answer").
StrStrip(v) == Strip(v.text)

\* seq[:n]
Prefix(seq, n) ==
  IF n >= 0 THEN SubSeq(seq, 1, Min(n, Len(seq))) ELSE SubSeq(seq, 1, Len(seq) + n)

\* for item in obj[:max_q]: if isinstance(item, dict): out.append({...})
PairsOfItems(items, max_q) ==
  LET first == Prefix(items, max_q)
      dicts == SelectSeq(first, LAMBDA item : item.type = "dict")
  IN  [k \in 1..Len(dicts) |->
         [ question |-> StrStrip(DictGet(dicts[k], <<"q", "u", "e", "s", "t", "i", "o", "n">>)),
           answer   |-> StrStrip(DictGet(dicts[k], <<"a", "n", "s", "w", "e", "r">>)) ]]

\* What the direct JSON load does with obj = json.loads(s): with a list it
\* returns out, empty or not.
DirectResult(obj, max_q) ==
  IF obj.ok /\ obj.val.type = "list"
  THEN [returns |-> TRUE, out |-> PairsOfItems(obj.val.items, max_q)]
  ELSE [returns |-> FALSE, out |-> <<>>]

\* The direct JSON load: whether the function returns here, and what.
DirectJson(s, max_q) == DirectResult(JsonLoads(s), max_q)

\* The least and the greatest number of a non-empty set.
MinOf(S) == CHOOSE k \in S : \A m \in S : k <= m

MaxOf(S) == CHOOSE k \in S : \A m \in S : m <= k

\* for end in range(len(s), start, -1): the first fragment that loads, among
\* loaded[e] = json.loads(s[start:e]).
LongestLoaded(loaded, ends) == IF ends = {} THEN JsonFail ELSE loaded[MaxOf(ends)]

FragmentsFrom(loaded) == LongestLoaded(loaded, { e \in DOMAIN loaded : loaded[e].ok })

\* The fragments that start at the first match of the pattern.
FragmentAt(s, starts) ==
  IF starts = {} THEN JsonFail
  ELSE FragmentsFrom([e \in MinOf(starts)..Len(s) |-> JsonLoads(SubSeq(s, MinOf(starts), e))])

\* The loop of _safe_json_extract for one pattern, (\[.*?\]) or (\{.*?\}):
\* from the first opening bracket that has a closing one after it, the
\* longest fragment that json.loads accepts.
ExtractFragment(s, open, close) ==
  FragmentAt(s, { i \in 1..Len(s) : s[i] = open /\ \E j \in (i + 1)..Len(s) : s[j] = close })

\* The first of the attempts that gave an object.
FirstLoaded(whole, array, object) ==
  IF whole.ok THEN whole ELSE IF array.ok THEN array ELSE object

\* s = s.strip() and the attempts of _safe_json_extract.
ExtractStripped(t) ==
  IF t = <<>> THEN JsonFail
  ELSE FirstLoaded(JsonLoads(t), ExtractFragment(t, "[", "]"), ExtractFragment(t, "{", "}"))

\* _safe_json_extract(s): the object, or ok = FALSE for None.
SafeJsonExtract(s) == ExtractStripped(Strip(s))

\* if out: return out
NonEmptyResult(out) == [returns |-> out # <<>>, out |-> out]

\* What the embedded JSON extraction does with obj = _safe_json_extract(s).
EmbeddedResult(obj, max_q) ==
  NonEmptyResult(IF obj.ok /\ obj.val.type = "list" /\ obj.val.items # <<>>
                 THEN PairsOfItems(obj.val.items, max_q) ELSE <<>>)

\* The embedded JSON extraction: whether the function returns here, and what.
EmbeddedJson(s, max_q) == EmbeddedResult(SafeJsonExtract(s), max_q)

\* [:\.\s]
LabelEnd == {":", "."} \cup Whitespace

\* re.match(r'^(L|Label)[:\.\s]', ln, re.I) for the label Q/Question or
\* A/Answer, given in lowercase.
MatchLabel(ln, label) ==
  \/ /\ Len(ln) >= 2
     /\ LowerChar(ln[1]) = label[1]
     /\ ln[2] \in LabelEnd
  \/ /\ Len(ln) >= Len(label) + 1
     /\ Lower(SubSeq(ln, 1, Len(label))) = label
     /\ ln[Len(label) + 1] \in LabelEnd

\* re.sub(r'^(L|Label)[:\.\s]*', '', ln, flags=re.I): the alternative of one
\* letter matches first, and with it the pattern always succeeds.
SubLabel(ln, label) ==
  IF ln # <<>> /\ LowerChar(ln[1]) = label[1]
  THEN SubSeq(ln, RunEnd(ln, 2, LabelEnd) + 1, Len(ln))
  ELSE ln

\* re.match(r'^\d+\.', ln)
MatchNumbered(ln) ==
  LET d == RunEnd(ln, 1, Digits)
  IN  d >= 1 /\ d + 1 <= Len(ln) /\ ln[d + 1] = "."

\* re.sub(r'^\d+\.\s*', '', ln)
SubNumbered(ln) ==
  IF MatchNumbered(ln)
  THEN SubSeq(ln, RunEnd(ln, RunEnd(ln, 1, Digits) + 2, Whitespace) + 1, Len(ln))
  ELSE ln

QLabel == <<"q", "u", "e", "s", "t", "i", "o", "n">>

ALabel == <<"a", "n", "s", "w", "e", "r">>

\* Whether sub occurs in s: sub in s.
Contains(s, sub) == Occurrences(s, sub) # {}

\* The length of the match of \sA[:ns]|Answer[:\s] (ignoring case) at
\* position p of ln, or 0.
InlineAnswerMatch(ln, p) ==
  IF /\ p + 2 <= Len(ln)
     /\ ln[p] \in Whitespace
     /\ LowerChar(ln[p + 1]) = "a"
     /\ LowerChar(ln[p + 2]) \in {":", "n", "s"}
  THEN 3
  ELSE IF /\ p + 6 <= Len(ln)
          /\ Lower(SubSeq(ln, p, p + 5)) = ALabel
          /\ ln[p + 6] \in {":"} \cup Whitespace
  THEN 7
  ELSE 0

\* flush() of _parse_qa_lines: the list after it.
FlushQa(q, a_buf, qa_list) ==
  IF q # <<>> /\ a_buf # <<>>
  THEN Append(qa_list, [question |-> Strip(q), answer |-> Strip(Join(a_buf, <<" ">>))])
  ELSE qa_list

\* The loop of _parse_qa_lines over lines from position i, and the final
\* flush; q is <<>> for None and for ''.
RECURSIVE QaLoop(_, _, _, _, _)
QaLoop(lines, i, q, a_buf, qa_list) ==
  IF i > Len(lines) THEN FlushQa(q, a_buf, qa_list)
  ELSE LET ln == lines[i]
           ps == { p \in 1..Len(ln) : InlineAnswerMatch(ln, p) > 0 }
       IN  IF MatchLabel(ln, QLabel) \/ MatchNumbered(ln)
           THEN QaLoop(lines, i + 1, SubNumbered(SubLabel(ln, QLabel)), <<>>,
                       FlushQa(q, a_buf, qa_list))
           ELSE IF MatchLabel(ln, ALabel)
           THEN QaLoop(lines, i + 1, q, Append(a_buf, SubLabel(ln, ALabel)), qa_list)
           ELSE IF /\ Contains(ln, <<" ", "A", ":">>) \/ Contains(ln, <<"A", "n", "s", "w", "e", "r", ":">>)
                   /\ ps # {}
           THEN LET p == CHOOSE k \in ps : \A m \in ps : k <= m
                    q_part == SubLabel(SubSeq(ln, 1, p - 1), QLabel)
                    a_part == SubSeq(ln, p + InlineAnswerMatch(ln, p), Len(ln))
                IN  QaLoop(lines, i + 1, <<>>, <<>>,
                           Append(qa_list, [question |-> Strip(q_part), answer |-> Strip(a_part)]))
           ELSE IF q # <<>>
           THEN QaLoop(lines, i + 1, q, Append(a_buf, ln), qa_list)
           ELSE IF ln[Len(ln)] = "?"
           THEN QaLoop(lines, i + 1, ln, <<>>, FlushQa(q, a_buf, qa_list))
           ELSE QaLoop(lines, i + 1, q, a_buf, qa_list)

\* [ln.strip() for ln in text.splitlines() if ln.strip()]
LinesOf(text) == StripNonBlank(Split(text, <<"\n">>))

\* _parse_qa_lines(text)
ParseQaLines(text) == QaLoop(LinesOf(text), 1, <<>>, <<>>, <<>>)

\* A slice that keeps every pair.
AllPairs(pairs, max_q) == pairs

\* qa[:max_q]
FirstPairs(pairs, max_q) == Prefix(pairs, max_q)

\* The labeled Q/A lines: whether the function returns here, and what.
QaLines(s, max_q) ==
  [returns |-> ParseQaLines(s) # <<>>, out |-> FirstPairs(ParseQaLines(s), max_q)]

\* The while loop of the positional pairing over parts from position i
\* (1-based), with the candidates so far.
RECURSIVE PairLoop(_, _, _, _)
PairLoop(parts, i, candidates, max_q) ==
  IF ~(i < Len(parts) /\ Len(candidates) < max_q) THEN candidates
  ELSE LET p1 == parts[i]
           p2 == parts[i + 1]
       IN  IF p1[Len(p1)] = "?" \/ (Len(p1) < 120 /\ Len(p2) > Len(p1))
           THEN PairLoop(parts, i + 2, Append(candidates, [question |-> p1, answer |-> p2]),
                         max_q)
           ELSE PairLoop(parts, i + 1, candidates, max_q)

\* The positional pairing: whether the function returns here, and what.
Pairing(s, max_q) ==
  LET candidates == PairLoop(LinesOf(s), 1, <<>>, max_q)
  IN  [returns |-> candidates # <<>>, out |-> FirstPairs(candidates, max_q)]

(***************************************************************************)
(* clean_text.                                                             *)
(***************************************************************************)
\* len(nxt) < 60 of the line merge
SHORT_LINE_CHARS == 60

\* text.replace('\r\n', '\n').replace('\r', '\n')
NormalizeLineEndings(raw) ==
  SelectSeq([i \in 1..Len(raw) |->
               IF raw[i] # "\r" THEN raw[i]
               ELSE IF i < Len(raw) /\ raw[i + 1] = "\n" THEN "" ELSE "\n"],
            LAMBDA c : c # "")

\* re.sub(r"(\w)-\n(\w)", r"\1\2", text)
RECURSIVE RepairHyphenation(_)
RepairHyphenation(s) ==
  LET starts == { i \in 1..(Len(s) - 3) :
                    /\ s[i] \in WordChars /\ s[i + 1] = "-"
                    /\ s[i + 2] = "\n" /\ s[i + 3] \in WordChars }
  IN  IF starts = {} THEN s
      ELSE SubSeq(s, 1, MinOf(starts)) \o <<s[MinOf(starts) + 3]>>
             \o RepairHyphenation(SubSeq(s, MinOf(starts) + 4, Len(s)))

\* Whether \bword\b matches somewhere in line, ignoring case.
HasWord(line, word) ==
  \E i \in Occurrences(Lower(line), word) :
    /\ i = 1 \/ line[i - 1] \notin WordChars
    /\ i + Len(word) > Len(line) \/ line[i + Len(word)] \notin WordChars

\* Whether ^\s*page\s+\d+\b matches s, ignoring case.
StartsPageMarker(s) ==
  LET e == PageMarkerEnd(s, RunEnd(s, 1, Whitespace) + 1)
  IN  e > 0 /\ (e = Len(s) \/ s[e + 1] \notin WordChars)

\* Whether ^[A-Z]{2,}\d{3,}\b matches s, ignoring case.
StartsCourseCode(s) ==
  LET l == RunEnd(s, 1, UpperLetters \cup LowerLetters)
      d == RunEnd(s, l + 1, Digits)
  IN  l >= 2 /\ d >= l + 3 /\ (d = Len(s) \/ s[d + 1] \notin WordChars)

\* Whether one of _HEADER_PATTERNS matches line, ignoring case.
IsHeaderLine(line) ==
  \/ StartsPageMarker(line)
  \/ StartsWithWord(line, <<"l", "e", "c", "t", "u", "r", "e", " ", "n", "o", "t", "e", "s">>)
  \/ StartsWithWord(line, <<"l", "e", "c", "t", "u", "r", "e">>)
  \/ StartsWithWord(line, <<"s", "l", "i", "d", "e">>)
  \/ StartsWithWord(line, <<"s", "e", "s", "s", "i", "o", "n">>)
  \/ StartsWithWord(line, <<"t", "a", "b", "l", "e", " ", "o", "f", " ",
                            "c", "o", "n", "t", "e", "n", "t", "s">>)
  \/ HasWord(line, <<"a", "u", "t", "h", "o", "r">>)
  \/ HasWord(line, <<"i", "s", "b", "n">>)
  \/ HasWord(line, <<"d", "o", "i">>)
  \/ Contains(line, <<"©">>)
  \/ Contains(Lower(line), <<"a", "l", "l", " ", "r", "i", "g", "h", "t", "s", " ",
                             "r", "e", "s", "e", "r", "v", "e", "d">>)

\* The inner while loop of the line merge: buf after the lines from j on.
RECURSIVE MergeBuf(_, _, _)
MergeBuf(lines, j, buf) ==
  IF j > Len(lines) \/ Strip(lines[j]) = <<>> THEN buf
  ELSE IF buf[Len(buf)][Len(buf[Len(buf)])] \in {".", "!", "?", ";", ":"} THEN buf
  ELSE IF StartsLower(Strip(lines[j])) \/ Len(Strip(lines[j])) < SHORT_LINE_CHARS
  THEN MergeBuf(lines, j + 1, Append(buf, Strip(lines[j])))
  ELSE buf

\* The outer while loop of the line merge from line i (1-based).
RECURSIVE MergeLines(_, _, _)
MergeLines(lines, i, merged_lines) ==
  IF i > Len(lines) THEN merged_lines
  ELSE IF Strip(lines[i]) = <<>> THEN MergeLines(lines, i + 1, Append(merged_lines, <<>>))
  ELSE IF IsHeaderLine(Strip(lines[i])) THEN MergeLines(lines, i + 1, merged_lines)
  ELSE MergeLines(lines, i + Len(MergeBuf(lines, i + 1, <<Strip(lines[i])>>)),
                  Append(merged_lines,
                         Join(MergeBuf(lines, i + 1, <<Strip(lines[i])>>), <<" ">>)))

\* Whether the line filter drops the non-blank line s that follows prev.
DropsLine(s, prev) ==
  \/ Len(s) <= 4 /\ \A i \in 1..Len(s) : s[i] \in Digits
  \/ StartsPageMarker(s)
  \/ s = prev
  \/ Contains(Lower(s), <<"i", "s", "b", "n">>) \/ Contains(Lower(s), <<"d", "o", "i">>)
  \/ Contains(Lower(s), <<"a", "l", "l", " ", "r", "i", "g", "h", "t", "s", " ",
                          "r", "e", "s", "e", "r", "v", "e", "d">>)
  \/ Contains(s, <<"©">>)

\* The loop over merged_lines from position k, with prev (<<"None">> before
\* the first line) and the lines kept so far.
RECURSIVE FilterLines(_, _, _, _)
FilterLines(merged_lines, k, prev, cleaned) ==
  IF k > Len(merged_lines) THEN cleaned
  ELSE IF Strip(merged_lines[k]) = <<>>
  THEN FilterLines(merged_lines, k + 1, <<>>, Append(cleaned, <<>>))
  ELSE IF DropsLine(Strip(merged_lines[k]), prev)
  THEN FilterLines(merged_lines, k + 1, prev, cleaned)
  ELSE FilterLines(merged_lines, k + 1, Strip(merged_lines[k]),
                   Append(cleaned, Strip(merged_lines[k])))

\* The blank lines collapsed to at most one between lines, and
\* "\n\n".join([p for p in "\n\n".join(out).split("\n\n") if p.strip()]).
JoinParagraphs(cleaned) ==
  Join(SelectSeq(Split(Join(SelectSeq([k \in 1..Len(cleaned) |->
                                         IF cleaned[k] = <<>> /\ k > 1 /\ cleaned[k - 1] = <<>>
                                         THEN <<"drop">> ELSE cleaned[k]],
                                      LAMBDA ln : ln # <<"drop">>),
                            ParaSep),
                       ParaSep),
                 LAMBDA p : Strip(p) # <<>>),
       ParaSep)

\* re.sub(r"[ \t]+", " ", result)
CollapseSpaces(s) ==
  SelectSeq([i \in 1..Len(s) |->
               IF s[i] \notin {" ", "\t"} THEN s[i]
               ELSE IF i > 1 /\ s[i - 1] \in {" ", "\t"} THEN "" ELSE " "],
            LAMBDA c : c # "")

\* clean_text(raw)
clean_text(raw) ==
  IF raw = <<>> THEN <<>>
  ELSE Strip(CollapseSpaces(JoinParagraphs(
         FilterLines(MergeLines(Split(RepairHyphenation(NormalizeLineEndings(raw)), <<"\n">>),
                                1, <<>>),
                     1, <<"None">>, <<>>))))

(***************************************************************************)
(* upload(): configuration and the idle state.                             *)
(***************************************************************************)
\* MAX_TOTAL_CHARS = getattr(config_mod, 'MAX_TOTAL_CHARS', 80000)
MAX_TOTAL_CHARS == 80000

\* _call_model_with_retries(..., attempts=3)
ATTEMPTS == 3

\* model_manager_module = None: the module is never imported.
model_manager_module == "None"

\* mgr = model_manager_module.load_default_manager(...), or None when that
\* raises (an attribute of None).
LoadDefaultManager == IF model_manager_module = "None" THEN "None" ELSE "manager"

\* len(text) of the chunks of a request: blank after trimming, a chunk of
\* ordinary size, and a chunk of one very long paragraph.
ChunkLens == {0, 1000, 79001}

NoRecord ==
  [ built |-> FALSE, flashcards |-> <<>>, num_chunks |-> 0,
    stats |-> [flashcards_generated |-> 0, chunks_processed |-> 0] ]

\* The locals of upload() before it runs.
UploadLocals ==
  /\ upload_chunks = <<>>
  /\ mgr = "None"
  /\ chunk_i = 1
  /\ attempt = 1
  /\ fcs_chunk = <<>>
  /\ card_j = 1
  /\ aggregated = <<>>
  /\ seen_pairs = {}
  /\ chunks_processed = 0
  /\ record = NoRecord
  /\ persisted = "no"
  /\ response = "none"
  /\ agg_origin = <<>>
  /\ offered = {}
  /\ failed = {}
  /\ gen_chunks = <<>>

\* extract_text_chunks does not run.
ChunkerIdle ==
  /\ cleaned_paras = <<>>
  /\ max_chunk_chars = 0
  /\ overlap_chars = 0
  /\ merged_paras = <<>>
  /\ merged_src = <<>>
  /\ headings_map = <<>>
  /\ chunks = <<>>
  /\ chunk_trace = <<>>
  /\ chunk_buf = <<>>
  /\ chunk_pages = <<>>
  /\ chunk_headings = <<>>
  /\ current_len = 0
  /\ buf_seed = <<>>
  /\ buf_src = <<>>
  /\ idx = 1
  /\ cpc = "idle"

\* No single function is called.
CallIdle ==
  /\ fn = "none"
  /\ fn_args = <<>>
  /\ fn_ret = <<>>
  /\ fpc = "idle"
  /\ strategy = 0
  /\ validated = <<>>
  /\ locals = <<>>

\* No document was uploaded to the server and no stream is open.
ServerIdle ==
  /\ processing_status = 0
  /\ status_of = <<>>
  /\ tpc = "idle"
  /\ total_chunks = 0
  /\ task_i = 1
  /\ all_cards = 0
  /\ deck_committed = FALSE
  /\ db_cards = 0
  /\ spc = "idle"
  /\ stream_status = 0
  /\ last_count = 0
  /\ timeout_count = 0
  /\ sent = <<>>

\* No upload request runs.
UploadIdle ==
  /\ UploadLocals
  /\ max_q_total = 0
  /\ remote_url = FALSE
  /\ mongo_available = FALSE
  /\ enable_file_db = FALSE
  /\ upc = "idle"

(***************************************************************************)
(* extract_text_chunks: building the chunks.                               *)
(***************************************************************************)
InitChunker ==
  /\ \E n \in 0..MaxParas : \E ts \in [1..n -> ParaTexts] : \E ps \in PageSeqs(n) :
       cleaned_paras = [i \in 1..n |-> [text |-> ts[i], page |-> ps[i]]]
  /\ max_chunk_chars \in 1..MaxChunkChars
  /\ overlap_chars \in 0..MaxOverlap
  /\ merged_paras = <<>>
  /\ merged_src = <<>>
  /\ headings_map = <<>>
  /\ chunks = <<>>
  /\ chunk_trace = <<>>
  /\ chunk_buf = <<>>
  /\ chunk_pages = <<>>
  /\ chunk_headings = <<>>
  /\ current_len = 0
  /\ buf_seed = <<>>
  /\ buf_src = <<>>
  /\ idx = 1
  /\ cpc = "cleaned"
  /\ UploadIdle
  /\ CallIdle
  /\ ServerIdle

\* if not cleaned_paras: raise ValueError
NoContent ==
  /\ UNCHANGED << uvars, mvars, lvars, svars >>
  /\ cpc = "cleaned"
  /\ cleaned_paras = <<>>
  /\ cpc' = "error"
  /\ UNCHANGED << cleaned_paras, max_chunk_chars, overlap_chars, merged_paras,
                  merged_src, headings_map, chunks, chunk_trace, chunk_buf,
                  chunk_pages, chunk_headings, current_len, buf_seed, buf_src, idx >>

\* The pre-merge of short paragraphs and the heading map.
PreMerge ==
  /\ UNCHANGED << uvars, mvars, lvars, svars >>
  /\ cpc = "cleaned"
  /\ cleaned_paras # <<>>
  /\ LET m == MergeShortParas(cleaned_paras)
     IN  /\ merged_paras' = [i \in 1..Len(m) |-> [text |-> m[i].text, page |-> m[i].page]]
         /\ merged_src' = [i \in 1..Len(m) |-> m[i].src]
  /\ headings_map' = HeadingsMap(merged_paras')
  /\ cpc' = "chunking"
  /\ UNCHANGED << cleaned_paras, max_chunk_chars, overlap_chars, chunks, chunk_trace,
                  chunk_buf, chunk_pages, chunk_headings, current_len, buf_seed,
                  buf_src, idx >>

\* if current_len + len(para_text) > max_chunk_chars and chunk_buf
ShouldFlush(len, para_text, max, buf) == len + Len(para_text) > max /\ buf # <<>>

\* The seed taken from the head of the chunk text, chunk_text[:overlap_chars].
OverlapTextFromHead(chunk_text, k) ==
  IF k # 0 /\ Len(chunk_text) > k THEN SubSeq(chunk_text, 1, k) ELSE chunk_text

\* chunk_text[-overlap_chars:] if overlap_chars and len(chunk_text) > overlap_chars
\* else chunk_text
OverlapText(chunk_text, k) ==
  IF k # 0 /\ Len(chunk_text) > k THEN LastChars(chunk_text, k) ELSE chunk_text

\* [overlap_text] if overlap_text else []
SeedBuf(overlap_text) == IF overlap_text # <<>> THEN <<overlap_text>> ELSE <<>>

\* "\n\n".join(chunk_buf).strip()
ChunkText(buf) == Strip(Join(buf, ParaSep))

\* The chunk given the heading of the last paragraph of the buffer.
NewChunkLastHeading(buf, pages, headings, id) ==
  [ chunk_id   |-> id,
    text       |-> ChunkText(buf),
    heading    |-> IF headings # <<>> THEN headings[Len(headings)] ELSE NoHeading,
    page_start |-> FirstPage(pages),
    page_end   |-> LastPage(pages) ]

\* The chunk numbered from 1, chunk_id = len(chunks) + 1.
NewChunkOneBasedId(buf, pages, headings, id) ==
  [ chunk_id   |-> id + 1,
    text       |-> ChunkText(buf),
    heading    |-> IF headings # <<>> THEN headings[1] ELSE NoHeading,
    page_start |-> FirstPage(pages),
    page_end   |-> LastPage(pages) ]

\* The dict appended to chunks on a flush.
NewChunk(buf, pages, headings, id) ==
  [ chunk_id   |-> id,
    text       |-> ChunkText(buf),
    heading    |-> IF headings # <<>> THEN headings[1] ELSE NoHeading,
    page_start |-> FirstPage(pages),
    page_end   |-> LastPage(pages) ]

\* One iteration of the loop over merged_paras.
ChunkStep ==
  /\ UNCHANGED << uvars, mvars, lvars, svars >>
  /\ cpc = "chunking"
  /\ idx <= Len(merged_paras)
  /\ LET para_text == Strip(merged_paras[idx].text)
         para_page == merged_paras[idx].page
         flush     == ShouldFlush(current_len, para_text, max_chunk_chars, chunk_buf)
         overlap_text == OverlapText(ChunkText(chunk_buf), overlap_chars)
         buf0      == IF flush THEN SeedBuf(overlap_text) ELSE chunk_buf
         pages0    == IF flush THEN <<>> ELSE chunk_pages
         heads0    == IF flush THEN <<>> ELSE chunk_headings
         len0      == IF flush THEN Len(overlap_text) ELSE current_len
     IN  IF para_text = <<>>
         THEN UNCHANGED << chunks, chunk_trace, chunk_buf, chunk_pages, chunk_headings,
                           current_len, buf_seed, buf_src >>
         ELSE /\ chunks' = IF flush
                           THEN Append(chunks, NewChunk(chunk_buf, chunk_pages,
                                                        chunk_headings, Len(chunks)))
                           ELSE chunks
              /\ chunk_trace' = IF flush
                                THEN Append(chunk_trace, [raw  |-> ChunkText(chunk_buf),
                                                          seed |-> buf_seed,
                                                          src  |-> buf_src])
                                ELSE chunk_trace
              /\ chunk_buf' = Append(buf0, para_text)
              /\ chunk_pages' = IF para_page # NoPage THEN Append(pages0, para_page) ELSE pages0
              /\ chunk_headings' =
                   Append(heads0, IF idx <= Len(headings_map) THEN headings_map[idx] ELSE NoHeading)
              /\ current_len' = len0 + Len(para_text)
              /\ buf_seed' = IF flush THEN overlap_text ELSE buf_seed
              /\ buf_src' = Append(IF flush THEN <<>> ELSE buf_src, idx)
  /\ idx' = idx + 1
  /\ UNCHANGED << cleaned_paras, max_chunk_chars, overlap_chars, merged_paras,
                  merged_src, headings_map, cpc >>

\* flush final chunk: if chunk_buf
FinalFlush ==
  /\ UNCHANGED << uvars, mvars, lvars, svars >>
  /\ cpc = "chunking"
  /\ idx > Len(merged_paras)
  /\ IF chunk_buf # <<>>
     THEN /\ chunks' = Append(chunks, NewChunk(chunk_buf, chunk_pages, chunk_headings,
                                               Len(chunks)))
          /\ chunk_trace' = Append(chunk_trace, [raw  |-> ChunkText(chunk_buf),
                                                 seed |-> buf_seed,
                                                 src  |-> buf_src])
     ELSE UNCHANGED << chunks, chunk_trace >>
  /\ cpc' = "trimming"
  /\ UNCHANGED << cleaned_paras, max_chunk_chars, overlap_chars, merged_paras,
                  merged_src, headings_map, chunk_buf, chunk_pages, chunk_headings,
                  current_len, buf_seed, buf_src, idx >>

\* c["text"].strip(" \n\t-:;,.()[]{}").strip()
TrimText(text) == Strip(StripSet(text, TrimChars))

\* Final trimming of every chunk's text; the function returns chunks.
FinalTrim ==
  /\ UNCHANGED << uvars, mvars, lvars, svars >>
  /\ cpc = "trimming"
  /\ chunks' = [i \in 1..Len(chunks) |-> [chunks[i] EXCEPT !.text = TrimText(@)]]
  /\ cpc' = "returned"
  /\ UNCHANGED << cleaned_paras, max_chunk_chars, overlap_chars, merged_paras,
                  merged_src, headings_map, chunk_trace, chunk_buf, chunk_pages,
                  chunk_headings, current_len, buf_seed, buf_src, idx >>

NextChunker == NoContent \/ PreMerge \/ ChunkStep \/ FinalFlush \/ FinalTrim

SpecChunker == InitChunker /\ [][NextChunker]_vars

(***************************************************************************)
(* upload(): from the saved file to the response.                          *)
(***************************************************************************)
InitUpload ==
  /\ UploadLocals
  /\ max_q_total \in 0..MaxQuota
  /\ remote_url \in BOOLEAN
  /\ mongo_available \in BOOLEAN
  /\ enable_file_db \in BOOLEAN
  /\ upc = "extract"
  /\ ChunkerIdle
  /\ CallIdle
  /\ ServerIdle

\* chunks = file_service.extract_text_chunks(...): a non-empty list of
\* chunks, or an exception and the 500 response.
ExtractChunks ==
  /\ upc = "extract"
  /\ \/ /\ response' = "500 failed to extract text from file"
        /\ upc' = "responded"
        /\ UNCHANGED upload_chunks
     \/ /\ \E n \in 1..MaxChunks : upload_chunks' \in [1..n -> ChunkLens]
        /\ upc' = "size_check"
        /\ UNCHANGED response
  /\ UNCHANGED << max_q_total, remote_url, mongo_available, enable_file_db, mgr, chunk_i,
                  attempt, fcs_chunk, card_j, aggregated, seen_pairs, chunks_processed,
                  record, persisted, agg_origin, offered, failed, gen_chunks >>
  /\ UNCHANGED << cvars, mvars, lvars, svars >>

\* sum(len(c.get('text', '')) for c in chunks)
RECURSIVE TotalChars(_)
TotalChars(lens) == IF lens = <<>> THEN 0 ELSE Head(lens) + TotalChars(Tail(lens))

\* The size quota applied to each chunk rather than to their sum.
TooLargePerChunk(lens) == \E i \in 1..Len(lens) : lens[i] > MAX_TOTAL_CHARS

\* if total_chars > MAX_TOTAL_CHARS
TooLarge(lens) == TotalChars(lens) > MAX_TOTAL_CHARS

\* The document-size quota, then the manager and the locals of the loop.
SizeCheck ==
  /\ upc = "size_check"
  /\ IF TooLarge(upload_chunks)
     THEN /\ response' = "413 document too large"
          /\ upc' = "responded"
          /\ UNCHANGED mgr
     ELSE /\ mgr' = LoadDefaultManager
          /\ upc' = "next_chunk"
          /\ UNCHANGED response
  /\ UNCHANGED << upload_chunks, max_q_total, remote_url, mongo_available, enable_file_db,
                  chunk_i, attempt, fcs_chunk, card_j, aggregated, seen_pairs,
                  chunks_processed, record, persisted, agg_origin, offered, failed,
                  gen_chunks >>
  /\ UNCHANGED << cvars, mvars, lvars, svars >>

\* if not text.strip(): the text of a chunk has no whitespace at its ends.
IsBlank(len) == len = 0

\* for chunk in chunks: the loop is over, the chunk is blank and skipped, or
\* _call_model_with_retries is entered. With a manager the local model is
\* tried first; with no remote URL the call returns [].
NextChunk ==
  /\ upc = "next_chunk"
  /\ IF chunk_i > Len(upload_chunks)
     THEN /\ upc' = "build_record"
          /\ UNCHANGED << chunk_i, attempt, fcs_chunk, gen_chunks >>
     ELSE IF IsBlank(upload_chunks[chunk_i])
     THEN /\ chunk_i' = chunk_i + 1
          /\ UNCHANGED << upc, attempt, fcs_chunk, gen_chunks >>
     ELSE /\ gen_chunks' = Append(gen_chunks, chunk_i)
          /\ UNCHANGED chunk_i
          /\ IF mgr # "None"
             THEN \E raises \in BOOLEAN, local \in CardLists(RemoteCards, MaxCards) :
                    IF ~raises
                    THEN /\ fcs_chunk' = local
                         /\ upc' = "fallback"
                         /\ UNCHANGED attempt
                    ELSE /\ fcs_chunk' = <<>>
                         /\ upc' = IF remote_url THEN "remote" ELSE "fallback"
                         /\ attempt' = 1
             ELSE /\ fcs_chunk' = <<>>
                  /\ upc' = IF remote_url THEN "remote" ELSE "fallback"
                  /\ attempt' = 1
  /\ UNCHANGED << upload_chunks, max_q_total, remote_url, mongo_available, enable_file_db,
                  mgr, card_j, aggregated, seen_pairs, chunks_processed, record, persisted,
                  response, agg_origin, offered, failed >>
  /\ UNCHANGED << cvars, mvars, lvars, svars >>

\* No except clause around the model call: the exception leaves upload().
OnModelCallExceptionUncaught == [abort |-> TRUE, fcs |-> <<>>]

\* What upload() does when _call_model_with_retries raises:
\* except Exception: fcs_chunk = [].
OnModelCallException == [abort |-> FALSE, fcs |-> <<>>]

\* One requests.post of _call_model_with_retries: a 200 response with a
\* list of cards (bare or under 'flashcards'), a 200 response of another
\* format, a response that is not 200 or a RequestException (sleep, next
\* attempt), or another exception, which leaves the function.
RemoteAttempt ==
  /\ upc = "remote"
  /\ attempt <= ATTEMPTS
  /\ \/ /\ \E cards \in CardLists(RemoteCards, MaxCards) : fcs_chunk' = cards
        /\ upc' = "fallback"
        /\ UNCHANGED << attempt, response >>
     \/ /\ fcs_chunk' = <<>>        \* "Unexpected remote ML response format"
        /\ upc' = "fallback"
        /\ UNCHANGED << attempt, response >>
     \/ /\ attempt' = attempt + 1   \* status_code != 200, or RequestException
        /\ UNCHANGED << fcs_chunk, upc, response >>
     \/ /\ fcs_chunk' = OnModelCallException.fcs
        /\ IF OnModelCallException.abort
           THEN upc' = "responded" /\ response' = "500 internal server error"
           ELSE upc' = "fallback" /\ UNCHANGED response
        /\ UNCHANGED attempt
  /\ UNCHANGED << upload_chunks, max_q_total, remote_url, mongo_available, enable_file_db,
                  mgr, chunk_i, card_j, aggregated, seen_pairs, chunks_processed, record,
                  persisted, agg_origin, offered, failed, gen_chunks >>
  /\ UNCHANGED << cvars, mvars, lvars, svars >>

\* "Remote ML service failed after %s attempts": return [].
RetriesExhausted ==
  /\ upc = "remote"
  /\ attempt > ATTEMPTS
  /\ fcs_chunk' = <<>>
  /\ upc' = "fallback"
  /\ UNCHANGED << upload_chunks, max_q_total, remote_url, mongo_available, enable_file_db,
                  mgr, chunk_i, attempt, card_j, aggregated, seen_pairs, chunks_processed,
                  record, persisted, response, agg_origin, offered, failed, gen_chunks >>
  /\ UNCHANGED << cvars, mvars, lvars, svars >>

\* The key without .lower().
PairKeyCaseSensitive(fc) == << Strip(fc.question), Strip(fc.answer) >>

\* key = (q.lower(), a.lower()) of the stripped question and answer
PairKey(fc) == << Lower(Strip(fc.question)), Lower(Strip(fc.answer)) >>

\* if not q or not a: continue
IsEmptyCard(fc) == Strip(fc.question) = <<>> \/ Strip(fc.answer) = <<>>

\* The pairs of the candidates of a list that have a question and an answer.
PairsOf(fcs) == { PairKey(fcs[k]) : k \in { m \in 1..Len(fcs) : ~IsEmptyCard(fcs[m]) } }

\* if not fcs_chunk: the rule-based fallback (which may raise: []); then
\* validation by the manager when there is one.
Fallback ==
  /\ upc = "fallback"
  /\ \E raises \in BOOLEAN, rb \in CardLists(RuleCards, MaxCards) :
       LET after_fallback ==
             IF fcs_chunk # <<>> THEN fcs_chunk
             ELSE IF raises THEN <<>>
             ELSE IF mgr # "None" THEN FallbackRuleBased(rb)
             ELSE rb
           after_validate ==
             IF mgr # "None" THEN ValidateFlashcards(after_fallback) ELSE after_fallback
       IN  /\ (fcs_chunk # <<>> \/ raises) => rb = <<>>
           /\ (fcs_chunk # <<>>) => ~raises
           /\ fcs_chunk' = after_validate
           /\ offered' = offered \cup PairsOf(after_validate)
  /\ failed' = IF fcs_chunk = <<>> THEN failed \cup {chunk_i} ELSE failed
  /\ card_j' = 1
  /\ upc' = "aggregate"
  /\ UNCHANGED << upload_chunks, max_q_total, remote_url, mongo_available, enable_file_db,
                  mgr, chunk_i, attempt, aggregated, seen_pairs, chunks_processed, record,
                  persisted, response, agg_origin, gen_chunks >>
  /\ UNCHANGED << cvars, mvars, lvars, svars >>

\* if len(aggregated) >= max_q_total
QuotaReached(n, max) == n >= max

\* One iteration of for fc in fcs_chunk, or its end; after the loop
\* chunks_processed += 1, and the quota is looked at again.
AggregateCard ==
  /\ upc = "aggregate"
  /\ IF card_j <= Len(fcs_chunk)
     THEN LET fc == fcs_chunk[card_j]
          IN  IF IsEmptyCard(fc) \/ PairKey(fc) \in seen_pairs
              THEN /\ card_j' = card_j + 1
                   /\ UNCHANGED << aggregated, seen_pairs, agg_origin, upc,
                                   chunks_processed, chunk_i >>
              ELSE /\ seen_pairs' = seen_pairs \cup {PairKey(fc)}
                   /\ aggregated' = Append(aggregated, fc)
                   /\ agg_origin' =
                        Append(agg_origin,
                               [chunk |-> chunk_i,
                                path  |-> IF chunk_i \in failed THEN "rule_based" ELSE "model"])
                   /\ IF QuotaReached(Len(aggregated'), max_q_total)
                      THEN /\ chunks_processed' = chunks_processed + 1
                           /\ upc' = "build_record"
                           /\ UNCHANGED << card_j, chunk_i >>
                      ELSE /\ card_j' = card_j + 1
                           /\ UNCHANGED << upc, chunks_processed, chunk_i >>
     ELSE /\ chunks_processed' = chunks_processed + 1
          /\ IF QuotaReached(Len(aggregated), max_q_total)
             THEN upc' = "build_record" /\ UNCHANGED chunk_i
             ELSE upc' = "next_chunk" /\ chunk_i' = chunk_i + 1
          /\ UNCHANGED << aggregated, seen_pairs, agg_origin, card_j >>
  /\ UNCHANGED << upload_chunks, max_q_total, remote_url, mongo_available, enable_file_db,
                  mgr, attempt, fcs_chunk, record, persisted, response, offered, failed,
                  gen_chunks >>
  /\ UNCHANGED << cvars, mvars, lvars, svars >>

\* record = {...}
BuildRecord ==
  /\ upc = "build_record"
  /\ record' = [ built |-> TRUE, flashcards |-> aggregated, num_chunks |-> chunks_processed,
                 stats |-> [flashcards_generated |-> Len(aggregated),
                            chunks_processed |-> chunks_processed] ]
  /\ upc' = "save"
  /\ UNCHANGED << upload_chunks, max_q_total, remote_url, mongo_available, enable_file_db,
                  mgr, chunk_i, attempt, fcs_chunk, card_j, aggregated, seen_pairs,
                  chunks_processed, persisted, response, agg_origin, offered, failed,
                  gen_chunks >>
  /\ UNCHANGED << cvars, mvars, lvars, svars >>

\* db_service.save_generated(record): where the record is stored ("no": it
\* returns None) or "raises", given whether the insert into Mongo and the
\* write of the file succeed.
SaveGenerated(mongo_ok, file_ok) ==
  IF mongo_available /\ mongo_ok THEN "mongo"
  ELSE IF enable_file_db THEN (IF file_ok THEN "file" ELSE "raises")
  ELSE "no"

\* saved_id = db_service.save_generated(record) and the response.
Save ==
  /\ upc = "save"
  /\ \E mongo_ok \in BOOLEAN, file_ok \in BOOLEAN :
       LET stored == SaveGenerated(mongo_ok, file_ok)
       IN  IF stored = "raises"
           THEN /\ response' = "500 failed to save generated flashcards"
                /\ UNCHANGED persisted
           ELSE /\ response' = "200 ok"
                /\ persisted' = stored
  /\ upc' = "responded"
  /\ UNCHANGED << upload_chunks, max_q_total, remote_url, mongo_available, enable_file_db,
                  mgr, chunk_i, attempt, fcs_chunk, card_j, aggregated, seen_pairs,
                  chunks_processed, record, agg_origin, offered, failed, gen_chunks >>
  /\ UNCHANGED << cvars, mvars, lvars, svars >>

NextUpload ==
  \/ ExtractChunks \/ SizeCheck \/ NextChunk \/ RemoteAttempt \/ RetriesExhausted
  \/ Fallback \/ AggregateCard \/ BuildRecord \/ Save

SpecUpload == InitUpload /\ [][NextUpload]_vars

(***************************************************************************)
(* One call of detect_headings_and_map(text).                              *)
(***************************************************************************)
\* Paragraphs of a text: plain, a Title Case heading, a keyword heading,
\* two lines of which the first is a heading, two lines of which only the
\* second looks like one, and a blank paragraph.
HeadingParas ==
  { <<"a", "b">>, <<"B", " ", "C">>, <<"U", "n", "i", "t">>,
    <<"X", " ", "Y", "\n", "c">>, <<"c", "\n", "X", " ", "Y">>, <<" ">> }

\* Texts of at most MaxHeadingParas paragraphs separated by blank lines.
HeadingTexts ==
  { Join(ps, ParaSep) : ps \in UNION { [1..n -> HeadingParas] : n \in 1..MaxHeadingParas } }

InitHeadings ==
  /\ fn = "detect_headings_and_map"
  /\ fn_args \in HeadingTexts
  /\ fn_ret = <<>>
  /\ fpc = "call"
  /\ strategy = 0
  /\ validated = <<>>
  /\ locals = <<>>
  /\ ChunkerIdle
  /\ UploadIdle
  /\ ServerIdle

DetectHeadings ==
  /\ fn = "detect_headings_and_map"
  /\ fpc = "call"
  /\ fn_ret' = detect_headings_and_map(fn_args)
  /\ fpc' = "returned"
  /\ UNCHANGED << fn, fn_args, strategy, validated >>
  /\ UNCHANGED << cvars, uvars, lvars, svars >>

NextHeadings == DetectHeadings

SpecHeadings == InitHeadings /\ [][NextHeadings]_vars

(***************************************************************************)
(* One call of ModelManager.validate_flashcards(fcs) or of                 *)
(* ModelManager._score_confidence(q, a, keywords).                         *)
(***************************************************************************)
\* A string of n characters.
Chars(n) == [i \in 1..n |-> "a"]

\* A candidate {question, answer, keywords} handed to validate_flashcards.
Candidate(q, a, kws) == [question |-> q, answer |-> a, keywords |-> kws]

\* Candidates: a "What is" pair, the same pair in another case and with
\* keywords, a pair with whitespace to normalize, an answer that is only a
\* page marker, a blank answer, an answer of more than 4000 characters.
ValidatorCandidates ==
  { Candidate(<<"W", "h", "a", "t", " ", "i", "s", " ", "X", "?">>, <<"X", " ", "i", "s", " ", "Y", ".">>, <<>>),
    Candidate(<<"W", "H", "A", "T", " ", "I", "S", " ", "X", "?">>, <<"x", " ", "i", "s", " ", "y", ".">>, << <<"x">> >>),
    Candidate(<<" ", "A", " ", " ", "b", " ">>, <<"c", "\t", "d">>, <<>>),
    Candidate(<<"B">>, <<"P", "a", "g", "e", " ", "3">>, <<>>),
    Candidate(<<"t">>, <<" ", " ">>, <<>>),
    Candidate(<<"L">>, Chars(MAX_ANSWER_CHARS + 1), <<>>) }

\* Questions, answers and keyword lists handed to _score_confidence.
ScoreQuestions ==
  { <<"W", "h", "a", "t", " ", "i", "s", " ", "X", "?">>, <<"W", "H", "A", "T", " ", "I", "S">>, <<"W", "h", "a", "t", " ", "i", "s", "n", "'", "t", " ", "X", "?">>, <<"W", "h", "a", "t", "e", "v", "e", "r">>,
    <<"D", "e", "f", "i", "n", "e", " ", "X">>, <<" ", "w", "h", "a", "t", " ", "i", "s", " ", "X", "?">> }

ScoreAnswers == { Chars(n) : n \in {0, 49, 50, 800, 801} }

ScoreKeywords == { <<>>, << <<"x">> >> }

InitValidator ==
  /\ \/ /\ fn = "validate_flashcards"
        /\ fn_args \in CardLists(ValidatorCandidates, MaxCandidates)
     \/ /\ fn = "_score_confidence"
        /\ fn_args \in [q : ScoreQuestions, a : ScoreAnswers, keywords : ScoreKeywords]
  /\ fn_ret = <<>>
  /\ fpc = "call"
  /\ strategy = 0
  /\ validated = <<>>
  /\ locals = <<>>
  /\ ChunkerIdle
  /\ UploadIdle
  /\ ServerIdle

ValidateCall ==
  /\ fn = "validate_flashcards"
  /\ fpc = "call"
  /\ fn_ret' = ValidateFlashcards(fn_args)
  /\ fpc' = "returned"
  /\ UNCHANGED << fn, fn_args, strategy, validated >>
  /\ UNCHANGED << cvars, uvars, lvars, svars >>

ScoreCall ==
  /\ fn = "_score_confidence"
  /\ fpc = "call"
  /\ fn_ret' = ScoreConfidence(fn_args.q, fn_args.a, fn_args.keywords)
  /\ fpc' = "returned"
  /\ UNCHANGED << fn, fn_args, strategy, validated >>
  /\ UNCHANGED << cvars, uvars, lvars, svars >>

NextValidator == ValidateCall \/ ScoreCall

SpecValidator == InitValidator /\ [][NextValidator]_vars

(***************************************************************************)
(* One call of ModelManager.parse_model_output(raw, max_q), followed, as   *)
(* in generate_flashcards, by validate_flashcards(parsed).                 *)
(***************************************************************************)
\* The output of the scenario: one pair as a JSON array
RawScenario ==
  <<"[", "{", "\"", "q", "u", "e", "s", "t", "i", "o", "n", "\"", ":", "\"", "W", "h", "a", "t", " ", "i", "s", " ", "X", "?", "\"", ",", "\"", "a", "n", "s", "w", "e", "r", "\"", ":", "\"", "X", " ", "i", "s", " ", "Y", ".", "\"", "}", "]">>

\* Two pairs on labeled Q/A lines
RawLabeled ==
  <<"Q", ":", " ", "A", "?", "\n", "A", ":", " ", "b", "\n", "Q", ":", " ", "C", "?", "\n", "A", ":", " ", "d">>

\* A JSON array of numbers on two lines
RawListOfNumbers ==
  <<"[", "1", ",", "\n", "2", "2", "2", "]">>

\* The raw outputs of the model.
RawOutputs ==
  {
    \* The output of the scenario: one pair as a JSON array
    RawScenario,
    \* A JSON array of two pairs
    <<"[", "{", "\"", "q", "u", "e", "s", "t", "i", "o", "n", "\"", ":", "\"", "A", "?", "\"", ",", "\"", "a", "n", "s", "w", "e", "r", "\"", ":", "\"", "b", "\"", "}", ",", "{", "\"", "q", "u", "e", "s", "t", "i", "o", "n", "\"", ":", "\"", "C", "?", "\"", ",", "\"", "a", "n", "s", "w", "e", "r", "\"", ":", "\"", "d", "\"", "}", "]">>,
    \* A JSON array of two pairs inside other text
    <<"O", "u", "t", ":", " ", "[", "{", "\"", "q", "u", "e", "s", "t", "i", "o", "n", "\"", ":", "\"", "A", "?", "\"", ",", "\"", "a", "n", "s", "w", "e", "r", "\"", ":", "\"", "b", "\"", "}", ",", " ", "{", "\"", "q", "u", "e", "s", "t", "i", "o", "n", "\"", ":", "\"", "C", "?", "\"", ",", "\"", "a", "n", "s", "w", "e", "r", "\"", ":", "\"", "d", "\"", "}", "]", " ", "e", "n", "d">>,
    \* Two pairs on labeled Q/A lines
    RawLabeled,
    \* Four unlabeled lines
    <<"X", "y", "\n", "l", "o", "n", "g", "e", "r", "\n", "Z", "w", "\n", "a", "n", "o", "t", "h", "e", "r">>,
    \* A JSON array of numbers on two lines
    RawListOfNumbers,
    \* An empty JSON array
    <<"[", "]">>,
    \* Only an artifact that sanitizing removes
    <<"s", "e", "e", " ", "a", "b", "o", "v", "e">>,
    \* Blank
    <<" ", "\n">>,
    \* A JSON object, not an array
    <<"{", "\"", "q", "u", "e", "s", "t", "i", "o", "n", "\"", ":", "\"", "A", "?", "\"", ",", "\"", "a", "n", "s", "w", "e", "r", "\"", ":", "\"", "b", "\"", "}">>,
    \* Question and answer on one line
    <<"W", "h", "a", "t", " ", "i", "s", " ", "X", "?", " ", "A", ":", " ", "X", " ", "i", "s", " ", "Y", ".">>,
    \* Two numbered questions, each with an answer line
    <<"1", ".", " ", "A", "?", "\n", "b", "\n", "2", ".", " ", "C", "?", "\n", "d">>,
    \* An embedded JSON array of numbers, then a second line
    <<"x", " ", "[", "1", ",", " ", "2", "]", "\n", "l", "o", "n", "g", "e", "r", " ", "l", "i", "n", "e">>,
    \* Labeled lines separated by a carriage return, with a page marker
    <<"Q", ":", " ", "A", "?", "\r", "A", ":", " ", "b", " ", "p", "a", "g", "e", " ", "1", "2">>
  }

\* max_q = min(req.max_q or 5, MAX_QUESTIONS) of /generate
REQ_MAX_Q == 5

InitParser ==
  /\ fn = "parse_model_output"
  /\ fn_args \in [raw : RawOutputs, max_q : 0..MaxParseQ \cup {REQ_MAX_Q}]
  /\ fn_ret = <<>>
  /\ fpc = "call"
  /\ strategy = 0
  /\ validated = <<>>
  /\ locals = <<>>
  /\ ChunkerIdle
  /\ UploadIdle
  /\ ServerIdle

\* A step of the cascade: return what the strategy gives, or go on.
Cascade(result, number, next_pc) ==
  IF result.returns
  THEN fn_ret' = result.out /\ strategy' = number /\ fpc' = "returned"
  ELSE fpc' = next_pc /\ UNCHANGED << fn_ret, strategy >>

\* if not raw or not raw.strip(): return []
ParseBegin ==
  /\ fn = "parse_model_output"
  /\ fpc = "call"
  /\ fpc' = IF Strip(fn_args.raw) = <<>> THEN "returned" ELSE "json"
  /\ UNCHANGED << fn, fn_args, fn_ret, strategy, validated >>
  /\ UNCHANGED << cvars, uvars, lvars, svars >>

TryDirectJson ==
  /\ fpc = "json"
  /\ Cascade(DirectJson(SanitizeRaw(fn_args.raw), fn_args.max_q), 1, "extract")
  /\ UNCHANGED << fn, fn_args, validated >>
  /\ UNCHANGED << cvars, uvars, lvars, svars >>

TryEmbeddedJson ==
  /\ fpc = "extract"
  /\ Cascade(EmbeddedJson(SanitizeRaw(fn_args.raw), fn_args.max_q), 2, "qa_lines")
  /\ UNCHANGED << fn, fn_args, validated >>
  /\ UNCHANGED << cvars, uvars, lvars, svars >>

TryQaLines ==
  /\ fpc = "qa_lines"
  /\ Cascade(QaLines(SanitizeRaw(fn_args.raw), fn_args.max_q), 3, "pairing")
  /\ UNCHANGED << fn, fn_args, validated >>
  /\ UNCHANGED << cvars, uvars, lvars, svars >>

\* The last strategy: its candidates, or "Nothing parsed": return [].
TryPairing ==
  /\ fpc = "pairing"
  /\ Cascade(Pairing(SanitizeRaw(fn_args.raw), fn_args.max_q), 4, "returned")
  /\ UNCHANGED << fn, fn_args, validated >>
  /\ UNCHANGED << cvars, uvars, lvars, svars >>

\* validated = self.validate_flashcards(parsed), when parsed is not empty;
\* a parsed pair has no 'keywords': item.get('keywords', []) is [].
ValidateParsed ==
  /\ fn = "parse_model_output"
  /\ fpc = "returned"
  /\ fn_ret # <<>>
  /\ validated' = ValidateFlashcards([k \in 1..Len(fn_ret) |->
                     Candidate(fn_ret[k].question, fn_ret[k].answer, <<>>)])
  /\ fpc' = "validated"
  /\ UNCHANGED << fn, fn_args, fn_ret, strategy >>
  /\ UNCHANGED << cvars, uvars, lvars, svars >>

NextParser ==
  \/ ParseBegin \/ TryDirectJson \/ TryEmbeddedJson \/ TryQaLines \/ TryPairing
  \/ ValidateParsed

SpecParser == InitParser /\ [][NextParser]_vars

(***************************************************************************)
(* clean_text(raw), and clean_text again on what it returned.              *)
(***************************************************************************)
\* The lines of the raw texts: words, a line that ends a sentence, a
\* blank line, a hyphenated line end, a page number, lines the header
\* patterns match, a line with a doubled space and a carriage return, and
\* a line of 60 characters.
RawLines ==
  { <<"f", "o", "o">>, <<"a", "u", "t", "h", "o", "r">>, <<"A", "b", ".">>, <<>>,
    <<"x", "-">>, <<"1", "2">>, <<"P", "a", "g", "e", " ", "3">>,
    <<"a", "l", "l", " ", " ", "r", "i", "g", "h", "t", "s", " ",
      "r", "e", "s", "e", "r", "v", "e", "d", "\r">>,
    <<"Z">> \o Chars(SHORT_LINE_CHARS - 1) }

\* The raw texts: up to MaxLines lines.
RawTexts ==
  UNION { { Join(lines, <<"\n">>) : lines \in [1..n -> RawLines] } : n \in 1..MaxLines }

InitCleaner ==
  /\ fn = "clean_text"
  /\ fn_args \in [raw : RawTexts]
  /\ fn_ret = <<>>
  /\ fpc = "call"
  /\ strategy = 0
  /\ validated = <<>>
  /\ locals = <<>>
  /\ ChunkerIdle
  /\ UploadIdle
  /\ ServerIdle

\* cleaned = clean_text(raw)
CleanText ==
  /\ fn = "clean_text"
  /\ fpc \in {"call", "call_again"}
  /\ fn_ret' = clean_text(fn_args.raw)
  /\ fpc' = IF fpc = "call" THEN "returned" ELSE "returned_again"
  /\ UNCHANGED << fn, fn_args, strategy, validated >>
  /\ UNCHANGED << cvars, uvars, lvars, svars >>

\* The cleaned text is handed to clean_text again.
CleanAgain ==
  /\ fn = "clean_text"
  /\ fpc = "returned"
  /\ fn_args' = [raw |-> fn_ret]
  /\ fpc' = "call_again"
  /\ UNCHANGED << fn, fn_ret, strategy, validated >>
  /\ UNCHANGED << cvars, uvars, lvars, svars >>

NextCleaner == CleanText \/ CleanAgain

SpecCleaner == InitCleaner /\ [][NextCleaner]_vars

(***************************************************************************)
(* One call of ParserService.chunk_text(text, chunk_size, overlap).        *)
(* Positions are those of Python: 0-based, negative ones count from the    *)
(* end of the text.                                                        *)
(***************************************************************************)
\* chunk_size=800, overlap=100 of process_document_task
PIPELINE_CHUNK_SIZE == 800

PIPELINE_OVERLAP == 100

\* sentence_end > start + chunk_size - 200
SENTENCE_WINDOW == 200

\* word_end > start + chunk_size - 100
WORD_WINDOW == 100

\* The bound i of a slice of a sequence of n elements.
SliceIndex(i, n) == IF i < 0 THEN (IF i + n < 0 THEN 0 ELSE i + n) ELSE Min(i, n)

\* text.rfind(ch, start, end)
RFind(text, ch, start, end) ==
  LET found == { i \in SliceIndex(start, Len(text))..(SliceIndex(end, Len(text)) - 1) :
                   text[i + 1] = ch }
  IN  IF found = {} THEN -1 ELSE MaxOf(found)

\* The end of the chunk that starts at start: a sentence end, a word end,
\* or start + chunk_size.
ChunkEnd(text, start, chunk_size) ==
  IF ~(start + chunk_size < Len(text)) THEN start + chunk_size
  ELSE IF RFind(text, ".", start, start + chunk_size) > start + chunk_size - SENTENCE_WINDOW
  THEN RFind(text, ".", start, start + chunk_size) + 1
  ELSE IF RFind(text, " ", start, start + chunk_size) > start + chunk_size - WORD_WINDOW
  THEN RFind(text, " ", start, start + chunk_size)
  ELSE start + chunk_size

\* text[start:end].strip()
ChunkAt(text, start, end) ==
  Strip(SubSeq(text, SliceIndex(start, Len(text)) + 1, SliceIndex(end, Len(text))))

\* The short texts, and three texts for the sizes of the pipeline: with a
\* sentence end in the last 200 characters of the first chunk, with a
\* word end in its last 100 characters, and with neither.
ChunkTexts ==
  UNION { [1..n -> {"a", ".", " "}] : n \in 1..MaxTextLen }

PipelineTexts ==
  { [i \in 1..1000 |-> IF i = 651 THEN "." ELSE "a"],
    [i \in 1..1000 |-> IF i = 751 THEN " " ELSE "a"],
    [i \in 1..1000 |-> "a"] }

InitChunkText ==
  /\ fn = "chunk_text"
  /\ \/ fn_args \in { a \in [text : ChunkTexts, chunk_size : 1..MaxChunkSize,
                             overlap : 0..(MaxChunkSize - 1)] : a.overlap < a.chunk_size }
     \/ fn_args \in [text : PipelineTexts, chunk_size : {PIPELINE_CHUNK_SIZE},
                     overlap : {PIPELINE_OVERLAP}]
  /\ fn_ret = <<>>
  /\ fpc = "call"
  /\ strategy = 0
  /\ validated = <<>>
  /\ locals = [start |-> 0, chunks |-> <<>>]
  /\ ChunkerIdle
  /\ UploadIdle
  /\ ServerIdle

\* if len(text) <= chunk_size: return [text]
ChunkTextBegin ==
  /\ fn = "chunk_text"
  /\ fpc = "call"
  /\ IF Len(fn_args.text) <= fn_args.chunk_size
     THEN fn_ret' = <<fn_args.text>> /\ fpc' = "returned"
     ELSE fpc' = "loop" /\ UNCHANGED fn_ret
  /\ UNCHANGED << fn, fn_args, strategy, validated, locals >>
  /\ UNCHANGED << cvars, uvars, svars >>

\* One iteration of while start < len(text), with start' the next start.
ChunkTextIteration(start_next, chunk) ==
  /\ locals' = [start |-> start_next,
                chunks |-> IF chunk # <<>> THEN Append(locals.chunks, chunk)
                           ELSE locals.chunks]
  /\ IF start_next >= Len(fn_args.text)
     THEN fn_ret' = locals'.chunks /\ fpc' = "returned"
     ELSE UNCHANGED << fn_ret, fpc >>

ChunkTextStep ==
  /\ fpc = "loop"
  /\ Len(locals.chunks) < MaxChunkList
  /\ ChunkTextIteration(
       ChunkEnd(fn_args.text, locals.start, fn_args.chunk_size) - fn_args.overlap,
       ChunkAt(fn_args.text, locals.start,
               ChunkEnd(fn_args.text, locals.start, fn_args.chunk_size)))
  /\ UNCHANGED << fn, fn_args, strategy, validated >>
  /\ UNCHANGED << cvars, uvars, svars >>

NextChunkText == ChunkTextBegin \/ ChunkTextStep

SpecChunkText == InitChunkText /\ [][NextChunkText]_vars

(***************************************************************************)
(* The ML service: POST /generate of ml_service/app.py and                 *)
(* ModelManager.generate_flashcards, which it calls. A text is given by    *)
(* whether it is blank and by its sentences as preprocess_text,            *)
(* extract_definition_sentences and extract_key_terms (without nltk) see   *)
(* them.                                                                   *)
(***************************************************************************)
MAX_QUESTIONS == 10

\* len(raw_out) > 20000
MAX_RAW_CHARS == 20000

\* "term k means definition number k": a sentence that holds a definition.
DefinitionSentence(k) ==
  [ kind |-> "definition",
    term |-> <<"t", "e", "r", "m", " ", LowerSeq[k]>>,
    definition |-> <<"d", "e", "f", "i", "n", "i", "t", "i", "o", "n", " ",
                     "n", "u", "m", "b", "e", "r", " ", LowerSeq[k]>>,
    sentence |-> <<"t", "e", "r", "m", " ", LowerSeq[k], " ", "m", "e", "a", "n", "s", " ",
                   "d", "e", "f", "i", "n", "i", "t", "i", "o", "n", " ",
                   "n", "u", "m", "b", "e", "r", " ", LowerSeq[k]>>,
    key_terms |-> << <<"t", "e", "r", "m">>, <<LowerSeq[k]>>, <<"m", "e", "a", "n", "s">>,
                     <<"d", "e", "f", "i", "n", "i", "t", "i", "o", "n">>,
                     <<"n", "u", "m", "b", "e", "r">> >> ]

\* "plain statement number k": a sentence that holds none.
OtherSentence(k) ==
  [ kind |-> "other",
    term |-> <<>>,
    definition |-> <<>>,
    sentence |-> <<"p", "l", "a", "i", "n", " ", "s", "t", "a", "t", "e", "m", "e", "n", "t",
                   " ", "n", "u", "m", "b", "e", "r", " ", LowerSeq[k]>>,
    key_terms |-> << <<"p", "l", "a", "i", "n">>,
                     <<"s", "t", "a", "t", "e", "m", "e", "n", "t">>,
                     <<"n", "u", "m", "b", "e", "r">>, <<LowerSeq[k]>> >> ]

\* The texts: a blank one, and those of nd definitions and no other sentences.
ServiceTexts ==
  { [blank |-> TRUE, sentences |-> <<>>] } \cup
  { [blank |-> FALSE,
     sentences |-> [k \in 1..(nd + no) |->
                      IF k <= nd THEN DefinitionSentence(k) ELSE OtherSentence(k)]] :
      nd \in 0..MaxDefs, no \in 0..MaxOthers }

\* The card of a definition, and the card of another sentence.
RuleBasedCard(s) ==
  [ question |->
      IF s.kind = "definition"
      THEN <<"W", "h", "a", "t", " ", "i", "s", " ">> \o s.term \o <<"?">>
      ELSE IF s.key_terms # <<>>
      THEN <<"W", "h", "a", "t", " ", "i", "s", " ", "i", "m", "p", "o", "r", "t", "a", "n", "t",
             " ", "t", "o", " ", "k", "n", "o", "w", " ", "a", "b", "o", "u", "t", " ">>
           \o s.key_terms[1] \o <<"?">>
      ELSE <<"W", "h", "a", "t", " ", "i", "s", " ", "t", "h", "e", " ", "m", "a", "i", "n", " ",
             "i", "d", "e", "a", " ", "e", "x", "p", "r", "e", "s", "s", "e", "d", " ", "i", "n",
             " ", "t", "h", "i", "s", " ", "s", "t", "a", "t", "e", "m", "e", "n", "t", "?">>,
    answer |-> IF s.kind = "definition" THEN s.definition ELSE s.sentence,
    keywords |-> s.key_terms,
    confidence |-> NoConfidence, validated |-> FALSE ]

\* The cards of definitions[:max_q], then, if remaining > 0, those of
\* other_sents[:remaining].
RuleBasedCards(definitions, other_sents, max_q) ==
  [k \in 1..Len(Prefix(definitions, max_q)) |-> RuleBasedCard(definitions[k])]
  \o IF max_q - Len(Prefix(definitions, max_q)) > 0
     THEN [k \in 1..Len(Prefix(other_sents, max_q - Len(Prefix(definitions, max_q)))) |->
             RuleBasedCard(other_sents[k])]
     ELSE <<>>

enhanced_rule_based_generate(text, max_q) ==
  RuleBasedCards(SelectSeq(text.sentences, LAMBDA s : s.kind = "definition"),
                 SelectSeq(text.sentences, LAMBDA s : s.kind # "definition"), max_q)

\* if not raw_out or len(raw_out) > 20000 or re.fullmatch(r"\d+", raw_out.strip())
Suspicious(raw_out) ==
  \/ raw_out = <<>>
  \/ Len(raw_out) > MAX_RAW_CHARS
  \/ Strip(raw_out) # <<>> /\ \A i \in 1..Len(Strip(raw_out)) : Strip(raw_out)[i] \in Digits

\* parse_model_output(raw, max_q): the first strategy that returns.
ParseSanitized(s, max_q) ==
  IF DirectJson(s, max_q).returns THEN DirectJson(s, max_q).out
  ELSE IF EmbeddedJson(s, max_q).returns THEN EmbeddedJson(s, max_q).out
  ELSE IF QaLines(s, max_q).returns THEN QaLines(s, max_q).out
  ELSE Pairing(s, max_q).out

parse_model_output(raw, max_q) ==
  IF Strip(raw) = <<>> THEN <<>> ELSE ParseSanitized(SanitizeRaw(raw), max_q)

\* validated = self.validate_flashcards(parsed)
ValidatedOutput(raw, max_q) ==
  ValidateFlashcards([k \in 1..Len(parse_model_output(raw, max_q)) |->
    Candidate(parse_model_output(raw, max_q)[k].question,
              parse_model_output(raw, max_q)[k].answer, <<>>)])

\* What the model may output: pairs as JSON, pairs on labeled lines, a JSON
\* array of numbers, a pair without an answer, nothing, digits only, and
\* more than 20000 characters.
ServiceRawOutputs ==
  { RawScenario, RawLabeled, RawListOfNumbers,
    <<"[", "{", "\"", "q", "u", "e", "s", "t", "i", "o", "n", "\"", ":", "\"", "A", "?", "\"", "}", "]">>,
    <<>>, <<"1", "2", "\n">>, Chars(MAX_RAW_CHARS + 1) }

\* The keywords that KeyBERT or _simple_keyword_extract may give a card.
KeywordLists == { <<>>, << <<"k", "e", "y">> >> }

InitService ==
  /\ fn \in {"generate", "generate_flashcards"}
  /\ fn_args \in [text : ServiceTexts, max_q : (0 - MaxNegQ)..MaxReqQ,
                  manager : BOOLEAN, loaded : BOOLEAN]
  /\ fn = "generate_flashcards" => fn_args.manager
  /\ fn_ret = <<>>
  /\ fpc = IF fn = "generate" THEN "call" ELSE "gf_call"
  /\ strategy = 0
  /\ validated = <<>>
  /\ locals = [text |-> fn_args.text, max_q |-> fn_args.max_q, raw_out |-> <<"None">>,
               e |-> "None", cards |-> <<>>]
  /\ ChunkerIdle
  /\ UploadIdle
  /\ ServerIdle

\* text = (req.text or '').strip(); max_q = min(req.max_q or 5, MAX_QUESTIONS);
\* 400 for no text; the manager if there is one, else the rule-based
\* generator.
GenerateBegin ==
  /\ fn = "generate"
  /\ fpc = "call"
  /\ locals' = [locals EXCEPT !.max_q = Min(IF fn_args.max_q = 0 THEN REQ_MAX_Q
                                            ELSE fn_args.max_q, MAX_QUESTIONS)]
  /\ IF fn_args.text.blank
     THEN fn_ret' = [status |-> 400, flashcards |-> <<>>] /\ fpc' = "returned"
     ELSE /\ fpc' = IF fn_args.manager THEN "gf_call" ELSE "rule_based"
          /\ UNCHANGED fn_ret
  /\ UNCHANGED << fn, fn_args, strategy, validated >>
  /\ UNCHANGED << cvars, uvars, svars >>

\* return of generate_flashcards: to its caller.
FlashcardsReturn(cards) ==
  /\ locals' = [locals EXCEPT !.cards = cards]
  /\ IF fn = "generate_flashcards"
     THEN fn_ret' = cards /\ fpc' = "returned"
     ELSE fpc' = "gf_returned" /\ UNCHANGED fn_ret

\* if not text or not text.strip(): return []; if not self.model or not
\* self.tokenizer: the fallback.
GenerateFlashcardsBegin ==
  /\ fpc = "gf_call"
  /\ IF locals.text.blank THEN FlashcardsReturn(<<>>)
     ELSE /\ fpc' = IF fn_args.loaded THEN "gf_model" ELSE "gf_fallback"
          /\ UNCHANGED << fn_ret, locals >>
  /\ UNCHANGED << fn, fn_args, strategy, validated >>
  /\ UNCHANGED << cvars, uvars, svars >>

\* The try block with the output raw_out of the model: the fallback for a
\* suspicious output, for no parsed card and for no valid card; else the
\* validated cards with their keywords.
ModelGenerate ==
  /\ fpc = "gf_model"
  /\ \E raw_out \in ServiceRawOutputs :
       IF Suspicious(raw_out) \/ ValidatedOutput(raw_out, locals.max_q) = <<>>
       THEN /\ locals' = [locals EXCEPT !.raw_out = raw_out]
            /\ fpc' = "gf_fallback"
            /\ UNCHANGED << fn_ret, validated >>
       ELSE /\ validated' = ValidatedOutput(raw_out, locals.max_q)
            /\ \E kws \in [1..Len(validated') -> KeywordLists] :
                 FlashcardsReturn([k \in 1..Len(validated') |->
                                     [validated'[k] EXCEPT !.keywords = kws[k]]])
            /\ locals'.raw_out = raw_out
  /\ UNCHANGED << fn, fn_args, strategy >>
  /\ UNCHANGED << cvars, uvars, svars >>

\* An exception that leaves generate_flashcards.
GenerationExceptionPropagates ==
  /\ fpc = "gf_model"
  /\ fpc' = "raised"
  /\ locals' = [locals EXCEPT !.e = "raised"]
  /\ UNCHANGED << fn, fn_args, fn_ret, strategy, validated >>
  /\ UNCHANGED << cvars, uvars, svars >>

\* except Exception as e: return self.fallback_rule_based(text, max_q), for
\* an exception of the tokenizer, of the model, of the parser, of the
\* validator or of the keyword extraction.
OnGenerationException ==
  /\ fpc = "gf_model"
  /\ fpc' = "gf_fallback"
  /\ locals' = [locals EXCEPT !.e = "raised"]
  /\ UNCHANGED << fn, fn_args, fn_ret, strategy, validated >>
  /\ UNCHANGED << cvars, uvars, svars >>

\* fallback_rule_based(text, max_q): the normalized rule-based cards, or []
\* when the generator raises.
FallbackStep ==
  /\ fpc = "gf_fallback"
  /\ \E raises \in BOOLEAN :
       FlashcardsReturn(IF raises THEN <<>>
                        ELSE FallbackRuleBased(enhanced_rule_based_generate(locals.text,
                                                                            locals.max_q)))
  /\ UNCHANGED << fn, fn_args, strategy, validated >>
  /\ UNCHANGED << cvars, uvars, svars >>

\* if cards: return {'flashcards': cards}
GenerateAfterModel ==
  /\ fpc = "gf_returned"
  /\ IF locals.cards # <<>>
     THEN fn_ret' = [status |-> 200, flashcards |-> locals.cards] /\ fpc' = "returned"
     ELSE fpc' = "rule_based" /\ UNCHANGED fn_ret
  /\ UNCHANGED << fn, fn_args, strategy, validated, locals >>
  /\ UNCHANGED << cvars, uvars, svars >>

\* return {'flashcards': enhanced_rule_based_generate(text, max_q=max_q)},
\* or 500 when it raises.
GenerateRuleBased ==
  /\ fpc = "rule_based"
  /\ \E raises \in BOOLEAN :
       fn_ret' = IF raises THEN [status |-> 500, flashcards |-> <<>>]
                 ELSE [status |-> 200,
                       flashcards |-> enhanced_rule_based_generate(locals.text, locals.max_q)]
  /\ fpc' = "returned"
  /\ UNCHANGED << fn, fn_args, strategy, validated, locals >>
  /\ UNCHANGED << cvars, uvars, svars >>

NextService ==
  \/ GenerateBegin \/ GenerateFlashcardsBegin \/ ModelGenerate \/ OnGenerationException
  \/ FallbackStep \/ GenerateAfterModel \/ GenerateRuleBased

SpecService == InitService /\ [][NextService]_vars

(***************************************************************************)
(* One call of _call_model_with_retries(mgr, text, max_q, remote_url,      *)
(* attempts). locals.requests holds what each requests.post so far met:    *)
(* the status of the response (0 for a RequestException and no response)   *)
(* and its body.                                                           *)
(***************************************************************************)
\* What a requests.post may meet: a 200 response with the cards under
\* 'flashcards', with a bare list of cards, with JSON of another format or
\* with a body that is not JSON; a response that is not 200; no response.
RequestOutcomes ==
  [status : {200}, body : {"flashcards", "list"}, cards : CardLists(RemoteCards, 1)]
  \cup [status : {200}, body : {"other json", "not json"}, cards : {<<>>}]
  \cup [status : {500, 0}, body : {""}, cards : {<<>>}]

InitRetries ==
  /\ fn = "_call_model_with_retries"
  /\ fn_args \in [mgr : BOOLEAN, remote_url : BOOLEAN, attempts : 0..MaxAttempts,
                  json_error_is_request_exception : BOOLEAN]
  /\ fn_ret = <<>>
  /\ fpc = "call"
  /\ strategy = 0
  /\ validated = <<>>
  /\ locals = [attempt |-> 1, requests |-> <<>>]
  /\ ChunkerIdle
  /\ UploadIdle
  /\ ServerIdle

\* The local manager first: what generate_from_text returns, or, when it
\* raises or there is no manager, [] with no remote URL and the loop with
\* one.
RetriesBegin ==
  /\ fn = "_call_model_with_retries"
  /\ fpc = "call"
  /\ \E raises \in BOOLEAN, local \in CardLists(RemoteCards, 1) :
       IF fn_args.mgr /\ ~raises
       THEN fn_ret' = local /\ fpc' = "returned"
       ELSE /\ (~fn_args.mgr) => (raises /\ local = <<>>)
            /\ fn_ret' = <<>>
            /\ fpc' = IF fn_args.remote_url THEN "request" ELSE "returned"
  /\ UNCHANGED << fn, fn_args, strategy, validated, locals >>
  /\ UNCHANGED << cvars, uvars, svars >>

\* A loop without an end.
InAnyRange(k, attempts) == TRUE

\* for attempt in range(1, attempts + 1)
InRange(k, attempts) == k <= attempts

\* What the body of the loop does with a response: it returns the cards of
\* a 200 response, [] for JSON of another format; resp.json() raises for a
\* body that is not JSON, which is a RequestException (requests 2.27 and
\* later) or a ValueError that leaves the function; else the next attempt.
AfterRequest(r) ==
  IF r.status = 200 /\ r.body # "not json"
  THEN fn_ret' = r.cards /\ fpc' = "returned"
  ELSE IF r.status = 200 /\ ~fn_args.json_error_is_request_exception
  THEN fpc' = "raised" /\ UNCHANGED fn_ret
  ELSE UNCHANGED << fn_ret, fpc >>

\* One iteration of the loop: requests.post, and, with no return, the sleep.
RetriesRequest ==
  /\ fpc = "request"
  /\ InRange(locals.attempt, fn_args.attempts)
  /\ \E r \in RequestOutcomes :
       /\ locals' = [attempt |-> locals.attempt + 1, requests |-> Append(locals.requests, r)]
       /\ AfterRequest(r)
  /\ UNCHANGED << fn, fn_args, strategy, validated >>
  /\ UNCHANGED << cvars, uvars, svars >>

\* "Remote ML service failed after %s attempts": return [].
RetriesFailed ==
  /\ fpc = "request"
  /\ ~InRange(locals.attempt, fn_args.attempts)
  /\ fn_ret' = <<>>
  /\ fpc' = "returned"
  /\ UNCHANGED << fn, fn_args, strategy, validated, locals >>
  /\ UNCHANGED << cvars, uvars, svars >>

NextRetries == RetriesBegin \/ RetriesRequest \/ RetriesFailed

SpecRetries == InitRetries /\ [][NextRetries]_vars

(***************************************************************************)
(* The document server: upload_document, the background task               *)
(* process_document_task that it queues, and event_generator of            *)
(* GET /stream/{deck_id} for the same deck. The task runs in a thread of   *)
(* the thread pool and the stream on the event loop, so their steps        *)
(* interleave. A dict of processing_status is known by its number, the     *)
(* flashcards of the deck by their ids 1..db_cards, and sent holds the     *)
(* 'card', 'error' and 'complete' events of the stream.                    *)
(***************************************************************************)
\* max_timeout = 300
MAX_TIMEOUT == 300

\* await asyncio.sleep(2); timeout_count += 2
POLL_SECONDS == 2

tvars ==
  << processing_status, status_of, tpc, total_chunks, task_i, all_cards, deck_committed,
     db_cards >>

stvars == << spc, stream_status, last_count, timeout_count, sent >>

InitServer ==
  /\ ServerIdle
  /\ ChunkerIdle
  /\ UploadIdle
  /\ CallIdle

\* processing_status[temp_ref_id] = {"status": "queued", ...};
\* background_tasks.add_task(process_document_task, ...)
UploadDocument ==
  /\ tpc = "idle"
  /\ status_of' = Append(status_of, "queued")
  /\ processing_status' = Len(status_of')
  /\ tpc' = "queued"
  /\ UNCHANGED << total_chunks, task_i, all_cards, deck_committed, db_cards >>
  /\ UNCHANGED << cvars, uvars, mvars, lvars, stvars >>

\* processing_status[deck_id] = {"status": "processing", ...}, a new dict;
\* db = SessionLocal(), which makes a session without connecting to the
\* database and does not raise (it is called before the try block).
TaskStart ==
  /\ tpc = "queued"
  /\ status_of' = Append(status_of, "processing")
  /\ processing_status' = Len(status_of')
  /\ tpc' = "read"
  /\ UNCHANGED << total_chunks, task_i, all_cards, deck_committed, db_cards >>
  /\ UNCHANGED << cvars, uvars, mvars, lvars, stvars >>

\* processing_status[deck_id]["status"] = status
SetStatus(status) == status_of' = [status_of EXCEPT ![processing_status] = status]

\* with open(file_path, "rb"): the content, or an exception.
TaskRead ==
  /\ tpc = "read"
  /\ tpc' \in {"extract", "except"}
  /\ UNCHANGED << processing_status, status_of, total_chunks, task_i, all_cards,
                  deck_committed, db_cards >>
  /\ UNCHANGED << cvars, uvars, mvars, lvars, stvars >>

\* The text (of the parser or, when it raises, of decode); no text: the
\* status "error" and return; else chunk_text, which gives the chunks or
\* raises.
TaskExtract ==
  /\ tpc = "extract"
  /\ \/ SetStatus("error") /\ tpc' = "finally" /\ UNCHANGED total_chunks
     \/ \E n \in 1..MaxDocChunks :
          total_chunks' = n /\ tpc' = "deck" /\ UNCHANGED status_of
     \/ tpc' = "except" /\ UNCHANGED << status_of, total_chunks >>
  /\ UNCHANGED << processing_status, task_i, all_cards, deck_committed, db_cards >>
  /\ UNCHANGED << cvars, uvars, mvars, lvars, stvars >>

\* db.add(new_deck); db.commit(); db.refresh(new_deck); llm = LLMService():
\* the deck is committed, or one of them raises.
TaskCreateDeck ==
  /\ tpc = "deck"
  /\ \/ deck_committed' = TRUE /\ tpc' \in {"chunks", "except"}
     \/ tpc' = "except" /\ UNCHANGED deck_committed
  /\ UNCHANGED << processing_status, status_of, total_chunks, task_i, all_cards, db_cards >>
  /\ UNCHANGED << cvars, uvars, mvars, lvars, stvars >>

\* One chunk of the loop: generate_flashcards raises (continue); or its n
\* cards are added to the session and to all_cards_data, and db.commit()
\* commits them or raises (continue).
TaskChunk ==
  /\ tpc = "chunks"
  /\ task_i <= total_chunks
  /\ \E n \in 0..MaxCardsPerChunk, generated \in BOOLEAN, committed \in BOOLEAN :
       /\ ~generated => (n = 0 /\ ~committed)
       /\ all_cards' = all_cards + n
       /\ db_cards' = IF committed THEN db_cards + n ELSE db_cards
  /\ task_i' = task_i + 1
  /\ UNCHANGED << processing_status, status_of, tpc, total_chunks, deck_committed >>
  /\ UNCHANGED << cvars, uvars, mvars, lvars, stvars >>

\* if not all_cards_data: the status "error"; else the status "completed".
TaskFinish ==
  /\ tpc = "chunks"
  /\ task_i > total_chunks
  /\ SetStatus(IF all_cards = 0 THEN "error" ELSE "completed")
  /\ tpc' = "finally"
  /\ UNCHANGED << processing_status, total_chunks, task_i, all_cards, deck_committed,
                  db_cards >>
  /\ UNCHANGED << cvars, uvars, mvars, lvars, stvars >>

\* A handler that leaves the status as it is.
TaskExceptionIgnored ==
  /\ tpc = "except"
  /\ tpc' = "finally"
  /\ UNCHANGED << processing_status, status_of, total_chunks, task_i, all_cards,
                  deck_committed, db_cards >>
  /\ UNCHANGED << cvars, uvars, mvars, lvars, stvars >>

\* except Exception as e: processing_status[deck_id]["status"] = "error"
OnTaskException ==
  /\ tpc = "except"
  /\ SetStatus("error")
  /\ tpc' = "finally"
  /\ UNCHANGED << processing_status, total_chunks, task_i, all_cards, deck_committed,
                  db_cards >>
  /\ UNCHANGED << cvars, uvars, mvars, lvars, stvars >>

\* finally: db.close(); os.remove(file_path)
TaskFinally ==
  /\ tpc = "finally"
  /\ tpc' = "done"
  /\ UNCHANGED << processing_status, status_of, total_chunks, task_i, all_cards,
                  deck_committed, db_cards >>
  /\ UNCHANGED << cvars, uvars, mvars, lvars, stvars >>

NextTask ==
  \/ UploadDocument \/ TaskStart \/ TaskRead \/ TaskExtract \/ TaskCreateDeck \/ TaskChunk
  \/ TaskFinish \/ OnTaskException \/ TaskFinally

\* GET /stream/{deck_id}: last_count = 0; timeout_count = 0
StreamOpen ==
  /\ spc = "idle"
  /\ spc' = "poll"
  /\ UNCHANGED << stream_status, last_count, timeout_count, sent >>
  /\ UNCHANGED << cvars, uvars, mvars, lvars, tvars >>

\* yield the 'complete' event: the stream ends.
Complete(events) == sent' = events \o << [type |-> "complete", id |-> 0] >> /\ spc' = "complete"

\* while timeout_count < max_timeout: status = processing_status.get(deck_id);
\* an unknown id gives an 'error' event and ends the loop; else the status
\* is sent. After the loop: 'complete'.
StreamPoll ==
  /\ spc = "poll"
  /\ IF ~(timeout_count < MAX_TIMEOUT) THEN Complete(sent) /\ UNCHANGED stream_status
     ELSE IF processing_status = 0
     THEN Complete(Append(sent, [type |-> "error", id |-> 0])) /\ UNCHANGED stream_status
     ELSE stream_status' = processing_status /\ spc' = "query" /\ UNCHANGED sent
  /\ UNCHANGED << last_count, timeout_count >>
  /\ UNCHANGED << cvars, uvars, mvars, lvars, tvars >>

\* The deck of the request and, if it exists, its cards by id:
\* new_cards = cards[last_count:], each sent as a 'card' event;
\* last_count = len(cards).
StreamQuery ==
  /\ spc = "query"
  /\ IF deck_committed
     THEN /\ sent' = sent \o [k \in 1..(db_cards - last_count) |->
                                [type |-> "card", id |-> last_count + k]]
          /\ last_count' = db_cards
     ELSE UNCHANGED << sent, last_count >>
  /\ spc' = "check"
  /\ UNCHANGED << stream_status, timeout_count >>
  /\ UNCHANGED << cvars, uvars, mvars, lvars, tvars >>

\* if status.get("status") == "completed": break; if it is "error": an
\* 'error' event and break; after the loop 'complete'. Else the sleep.
StreamCheck ==
  /\ spc = "check"
  /\ IF status_of[stream_status] = "completed" THEN Complete(sent)
     ELSE IF status_of[stream_status] = "error"
     THEN Complete(Append(sent, [type |-> "error", id |-> 0]))
     ELSE spc' = "sleep" /\ UNCHANGED sent
  /\ UNCHANGED << stream_status, last_count, timeout_count >>
  /\ UNCHANGED << cvars, uvars, mvars, lvars, tvars >>

\* await asyncio.sleep(2); timeout_count += 2
StreamSleep ==
  /\ spc = "sleep"
  /\ timeout_count' = timeout_count + POLL_SECONDS
  /\ spc' = "poll"
  /\ UNCHANGED << stream_status, last_count, sent >>
  /\ UNCHANGED << cvars, uvars, mvars, lvars, tvars >>

NextServer ==
  \/ UploadDocument \/ TaskStart \/ TaskRead \/ TaskExtract \/ TaskCreateDeck \/ TaskChunk
  \/ TaskFinish \/ OnTaskException \/ TaskFinally
  \/ StreamOpen \/ StreamPoll \/ StreamQuery \/ StreamCheck \/ StreamSleep

SpecServer == InitServer /\ [][NextServer]_vars

\* The thread pool runs the task that was queued, and each of its steps
\* ends.
SpecTask == InitServer /\ [][NextTask]_vars /\ WF_vars(NextTask)

(***************************************************************************)
(* Properties of extract_text_chunks.                                      *)
(***************************************************************************)
\* The concatenation of a sequence of sequences.
RECURSIVE Concat(_)
Concat(ss) == IF ss = <<>> THEN <<>> ELSE Head(ss) \o Concat(Tail(ss))

\* The positions in cleaned_paras of the paragraphs appended to chunk c, in
\* the order in which they were appended.
ChunkParas(c) ==
  Concat([j \in 1..Len(chunk_trace[c].src) |-> merged_src[chunk_trace[c].src[j]]])

\* C1: every returned chunk has len(text) <= max_chunk_chars, except a chunk
\* built from a single source paragraph that alone is longer than
\* max_chunk_chars; seed and separators count toward the length. (A pair
\* joined by the pre-merge is taken as one source paragraph here.)
C1_ChunkWithinBudget ==
  cpc = "returned" =>
    \A c \in 1..Len(chunks) :
      \/ Len(chunks[c].text) <= max_chunk_chars
      \/ /\ Len(chunk_trace[c].src) = 1
         /\ Len(merged_paras[chunk_trace[c].src[1]].text) > max_chunk_chars

\* C8: with overlap_chars = k > 0, the text of chunk n+1 before the final
\* trimming begins with a non-empty suffix, of at most k characters, of the
\* text of chunk n before the final trimming.
C8_NextChunkBeginsWithSuffix ==
  overlap_chars > 0 =>
    \A c \in 1..(Len(chunk_trace) - 1) :
      LET A == chunk_trace[c].raw
          B == chunk_trace[c + 1].raw
      IN  \E n \in 1..Min(overlap_chars, Len(A)) :
            /\ n <= Len(B)
            /\ SubSeq(B, 1, n) = LastChars(A, n)

\* C8's case: a second chunk whose seed lost leading whitespace when the
\* chunk text was stripped.
C8_Witness ==
  /\ cpc = "returned"
  /\ overlap_chars > 0
  /\ Len(chunk_trace) >= 2
  /\ chunk_trace[2].seed # <<>>
  /\ Head(chunk_trace[2].seed) \in Whitespace

\* C9: after a flush the next buffer is seeded with exactly the last
\* min(overlap_chars, len(chunk text)) characters of the flushed chunk, for
\* every overlap_chars >= 0 (nothing when overlap_chars = 0).
C9_SeedIsTailOfFlushedChunk ==
  /\ \A c \in 2..Len(chunk_trace) :
       chunk_trace[c].seed =
         LastChars(chunk_trace[c - 1].raw, Min(overlap_chars, Len(chunk_trace[c - 1].raw)))
  /\ (cpc = "chunking" /\ chunk_trace # <<>>) =>
       LET last == chunk_trace[Len(chunk_trace)].raw
       IN  /\ buf_seed = LastChars(last, Min(overlap_chars, Len(last)))
           /\ chunk_buf[1] = buf_seed \/ (buf_seed = <<>> /\ Len(chunk_buf) = Len(buf_src))

\* The text of the (possibly merged) paragraph made of the cleaned
\* paragraphs at the positions src.
SourceText(src) == Join([j \in 1..Len(src) |-> cleaned_paras[src[j]].text], <<" ">>)

\* C10: every cleaned paragraph is appended to exactly one chunk, in the
\* original order: the paragraphs of the chunks, one chunk after the other,
\* are the paragraphs 1..n, and the text of each chunk before trimming is its
\* seed followed by exactly its paragraphs.
C10_EachParagraphInOneChunk ==
  cpc = "returned" =>
    /\ Concat([c \in 1..Len(chunk_trace) |-> ChunkParas(c)])
         = [i \in 1..Len(cleaned_paras) |-> i]
    /\ \A c \in 1..Len(chunk_trace) :
         chunk_trace[c].raw =
           Strip(Join(SeedBuf(chunk_trace[c].seed) \o
                      [j \in 1..Len(chunk_trace[c].src) |->
                         SourceText(merged_src[chunk_trace[c].src[j]])],
                      ParaSep))

\* C10's case: three paragraphs, two of them joined by the pre-merge, end
\* in two chunks.
C10_Witness ==
  /\ cpc = "returned"
  /\ Len(cleaned_paras) = 3
  /\ Len(merged_paras) = 2
  /\ Len(chunks) = 2

\* The non-null page numbers of the cleaned paragraphs that make up chunk
\* c, in order.
SourcePages(c) ==
  SelectSeq([j \in 1..Len(ChunkParas(c)) |-> cleaned_paras[ChunkParas(c)[j]].page],
            LAMBDA p : p # NoPage)

\* C11: page_start and page_end of every chunk are the first and the last
\* non-null page number among all the source paragraphs of the chunk, both
\* halves of a pre-merged pair included, and null exactly when none of them
\* carries a page number.
C11_PagesCoverSourceParagraphs ==
  cpc = "returned" =>
    \A c \in 1..Len(chunks) :
      IF SourcePages(c) = <<>>
      THEN chunks[c].page_start = NoPage /\ chunks[c].page_end = NoPage
      ELSE /\ chunks[c].page_start = SourcePages(c)[1]
           /\ chunks[c].page_end = SourcePages(c)[Len(SourcePages(c))]

\* C12: the heading of every chunk is the heading-map entry of the first
\* paragraph appended to its buffer after the previous flush.
C12_HeadingOfFirstParagraph ==
  \A c \in 1..Len(chunks) :
    chunks[c].heading = headings_map[chunk_trace[c].src[1]]

\* C12's case: a first chunk of two paragraphs with different headings, and
\* a second chunk, seeded with the overlap, whose first paragraph has another
\* heading than the first paragraph of the first chunk.
C12_Witness ==
  /\ cpc = "returned"
  /\ Len(chunks) = 2
  /\ Len(chunk_trace[1].src) = 2
  /\ headings_map[chunk_trace[1].src[2]] # headings_map[chunk_trace[1].src[1]]
  /\ chunk_trace[2].seed # <<>>
  /\ headings_map[chunk_trace[2].src[1]] # headings_map[chunk_trace[1].src[1]]

\* C14: the k-th chunk flushed has chunk_id k - 1, so the list is ordered by
\* chunk_id, strictly increasing, in the order of the paragraphs.
C14_ChunkIdsCountFromZero ==
  /\ \A c \in 1..Len(chunks) : chunks[c].chunk_id = c - 1
  /\ \A c \in 1..(Len(chunks) - 1) :
       /\ chunks[c].chunk_id < chunks[c + 1].chunk_id
       /\ chunk_trace[c].src[Len(chunk_trace[c].src)] < chunk_trace[c + 1].src[1]

\* C14's case: three chunks returned.
C14_Witness ==
  /\ cpc = "returned"
  /\ Len(chunks) = 3
  /\ chunks[3].chunk_id = 2

(***************************************************************************)
(* Properties of upload().                                                 *)
(***************************************************************************)
\* The non-blank chunks among the first n, in order.
NonBlankUpTo(n) ==
  SelectSeq([i \in 1..Min(n, Len(upload_chunks)) |-> i],
            LAMBDA i : ~IsBlank(upload_chunks[i]))

\* C2: with max_total_questions = N and chunks that yield more than N unique
\* (question, answer) pairs, the final record has exactly N flashcards, and
\* chunks_processed and stats.chunks_processed are the number of non-blank
\* chunks consumed up to and including the chunk that reached the quota.
C2_QuotaRecord ==
  (record.built /\ Cardinality(offered) > max_q_total) =>
    /\ Len(record.flashcards) = max_q_total
    /\ record.num_chunks = Len(NonBlankUpTo(chunk_i))
    /\ record.stats.chunks_processed = Len(NonBlankUpTo(chunk_i))

\* C3: in every state of the aggregation loop and in the final record the
\* number of aggregated flashcards is at most max_total_questions.
C3_QuotaIsUpperBound ==
  /\ Len(aggregated) <= max_q_total
  /\ Len(record.flashcards) <= max_q_total

\* Two cards whose questions and whose answers are equal ignoring case.
SameIgnoringCase(a, b) ==
  Lower(a.question) = Lower(b.question) /\ Lower(a.answer) = Lower(b.answer)

\* C4: the aggregated list never holds two flashcards whose (question,
\* answer) pairs are equal ignoring case, a pair offered again by a later
\* chunk adds nothing to the count compared with the quota, and every pair
\* offered before the quota was reached is in the list once.
C4_NoDuplicatePairs ==
  /\ \A i, j \in 1..Len(aggregated) :
       i # j => ~SameIgnoringCase(aggregated[i], aggregated[j])
  /\ \A i, j \in 1..Len(record.flashcards) :
       i # j => ~SameIgnoringCase(record.flashcards[i], record.flashcards[j])
  /\ Len(aggregated) <= Cardinality(offered)
  /\ (upc = "next_chunk" /\ ~QuotaReached(Len(aggregated), max_q_total)) =>
       Len(aggregated) = Cardinality(offered)

\* C4's case: two chunks each yielded the same pair (the second in another
\* case) and the record holds exactly one flashcard.
C4_Witness ==
  /\ upc = "responded"
  /\ record.built
  /\ gen_chunks = << 1, 2 >>
  /\ agg_origin = << [chunk |-> 1, path |-> "model"] >>
  /\ record.flashcards = << ModelCard >>
  /\ fcs_chunk = << RuleCardSameCase >>

\* C5: every flashcard of the record handed to save_generated has passed
\* validate_flashcards and carries a confidence in [0.0, 1.0].
C5_RecordHoldsValidatedFlashcards ==
  record.built =>
    \A i \in 1..Len(record.flashcards) :
      /\ record.flashcards[i].validated
      /\ record.flashcards[i].confidence \in 0..1000

\* C6: a chunk whose generation failed (the call raised, every attempt
\* failed, or the result was empty) does not abort the request: the chunk
\* contributes only rule-based candidates, the non-blank chunks are taken in
\* order until the quota is reached, and once generation has begun the
\* request ends with a record.
C6_GenerationFailureIsNotFatal ==
  /\ \A i \in 1..Len(aggregated) :
       agg_origin[i].chunk \in failed => aggregated[i] \in RuleCards
  /\ (upc \in {"remote", "fallback", "aggregate"}) => gen_chunks = NonBlankUpTo(chunk_i)
  /\ (upc = "responded" /\ gen_chunks # <<>>) =>
       /\ record.built
       /\ response \in {"200 ok", "500 failed to save generated flashcards"}
       /\ gen_chunks = NonBlankUpTo(chunk_i)
       /\ ~QuotaReached(Len(aggregated), max_q_total) =>
            gen_chunks = NonBlankUpTo(Len(upload_chunks))

\* C6's case: the remote call for chunk 1 failed on every attempt, chunk 2
\* was then processed and gave the flashcard of the record.
C6_Witness ==
  /\ upc = "responded"
  /\ response = "200 ok"
  /\ record.built
  /\ failed = {1}
  /\ attempt = 1
  /\ gen_chunks = << 1, 2 >>
  /\ Len(record.flashcards) = 1
  /\ agg_origin[1] = [chunk |-> 2, path |-> "model"]

\* C7: when the combined length of the chunk texts exceeds max_total_chars
\* the request is rejected after the size check, with no generation call
\* made and no record built or persisted; generation only ever runs on a
\* document within the budget.
C7_TooLargeRejectedBeforeGeneration ==
  /\ (TotalChars(upload_chunks) > MAX_TOTAL_CHARS /\ upc # "size_check") =>
       /\ upc = "responded"
       /\ response = "413 document too large"
       /\ gen_chunks = <<>>
       /\ failed = {}
       /\ ~record.built
       /\ persisted = "no"
  /\ gen_chunks # <<>> => TotalChars(upload_chunks) <= MAX_TOTAL_CHARS

\* C7's case: two chunks, each within the budget, together beyond it, and
\* the request rejected.
C7_Witness ==
  /\ upc = "responded"
  /\ Len(upload_chunks) = 2
  /\ \A i \in 1..2 : upload_chunks[i] <= MAX_TOTAL_CHARS
  /\ TotalChars(upload_chunks) > MAX_TOTAL_CHARS
  /\ response = "413 document too large"

(***************************************************************************)
(* Properties of detect_headings_and_map.                                  *)
(***************************************************************************)
\* The paragraphs of a text: its non-blank parts between blank lines.
ParagraphsOf(text) == StripNonBlank(Split(text, ParaSep))

\* Whether the first line of a paragraph looks like a heading.
IsHeadingPara(para) == IsHeadingLine(FirstLine(para)) # NoHeading

\* C13: detect_headings_and_map returns one entry per paragraph, in order,
\* with para_index the 0-based position, and the heading of entry i is that
\* of the nearest heading-like paragraph at a position <= i, or null when
\* there is none.
C13_HeadingsAreSticky ==
  (fn = "detect_headings_and_map" /\ fpc = "returned") =>
    LET paras == ParagraphsOf(fn_args)
    IN  /\ Len(fn_ret) = Len(paras)
        /\ \A i \in 1..Len(paras) :
             LET hs == { j \in 1..i : IsHeadingPara(paras[j]) }
             IN  /\ fn_ret[i].para_index = i - 1
                 /\ fn_ret[i].heading =
                      IF hs = {} THEN NoHeading
                      ELSE IsHeadingLine(
                             FirstLine(paras[CHOOSE j \in hs : \A k \in hs : k <= j]))

\* C13's case: a heading, a plain paragraph that inherits it, and a second
\* heading that supersedes it.
C13_Witness ==
  /\ fn = "detect_headings_and_map"
  /\ fpc = "returned"
  /\ Len(fn_ret) = 3
  /\ fn_ret[1].heading # NoHeading
  /\ ~IsHeadingPara(ParagraphsOf(fn_args)[2])
  /\ fn_ret[2].heading = fn_ret[1].heading
  /\ fn_ret[3].heading \notin {NoHeading, fn_ret[1].heading}

(***************************************************************************)
(* Properties of validate_flashcards and _score_confidence.                *)
(***************************************************************************)
\* C15: every flashcard returned by validate_flashcards has a non-empty
\* question and a non-empty answer after all the sanitizing steps.
C15_ValidatedCardsAreNonEmpty ==
  (fn = "validate_flashcards" /\ fpc = "returned") =>
    \A i \in 1..Len(fn_ret) : fn_ret[i].question # <<>> /\ fn_ret[i].answer # <<>>

\* Whether a candidate has a question and an answer after trimming.
HasBoth(fc) == Strip(fc.question) # <<>> /\ Strip(fc.answer) # <<>>

\* Whether two candidates have the same sanitized pair ignoring case.
SameSanitizedPair(x, y) ==
  /\ Lower(SanitizeQuestion(x.question)) = Lower(SanitizeQuestion(y.question))
  /\ Lower(SanitizeAnswer(x.answer)) = Lower(SanitizeAnswer(y.answer))

\* The positions of the candidates that have a question and an answer and
\* no earlier such candidate with the same pair, in input order.
FirstOccurrences(fcs) ==
  SelectSeq([i \in 1..Len(fcs) |-> i],
            LAMBDA i : /\ HasBoth(fcs[i])
                       /\ \A j \in 1..(i - 1) :
                            HasBoth(fcs[j]) => ~SameSanitizedPair(fcs[j], fcs[i]))

\* C16: validate_flashcards returns no two flashcards with the same pair
\* ignoring case; of the candidates with one pair the first in input order
\* is the one kept, and the kept candidates stay in input order.
C16_FirstOccurrenceWins ==
  (fn = "validate_flashcards" /\ fpc = "returned") =>
    LET kept == FirstOccurrences(fn_args)
    IN  /\ \A i, j \in 1..Len(fn_ret) :
             i # j => ~SameIgnoringCase(fn_ret[i], fn_ret[j])
        /\ Len(fn_ret) = Len(kept)
        /\ \A k \in 1..Len(kept) :
             /\ fn_ret[k].question = SanitizeQuestion(fn_args[kept[k]].question)
             /\ fn_ret[k].answer = SanitizeAnswer(fn_args[kept[k]].answer)
             /\ fn_ret[k].keywords = fn_args[kept[k]].keywords

\* C16's case: the pair "What is X?" / "X is Y." followed by the same pair in
\* capitals and with keywords: the first is the one returned.
C16_Witness ==
  /\ fn = "validate_flashcards"
  /\ fpc = "returned"
  /\ Len(fn_args) = 2
  /\ fn_args[1].question # fn_args[2].question
  /\ SameSanitizedPair(fn_args[1], fn_args[2])
  /\ Len(fn_ret) = 1
  /\ fn_ret[1].question = <<"W", "h", "a", "t", " ", "i", "s", " ", "X", "?">>
  /\ fn_ret[1].keywords = <<>>

\* Whether ^what is\b matches the lowercased question.
StartsWhatIs(q) ==
  /\ Len(q) >= 7
  /\ Lower(SubSeq(q, 1, 7)) = <<"w", "h", "a", "t", " ", "i", "s">>
  /\ (Len(q) = 7 \/ q[8] \notin WordChars)

\* The confidence as the rule states it, in thousandths.
ExpectedConfidence(q, a, keywords) ==
  LET sum == 500 + (IF keywords # <<>> THEN 200 ELSE 0)
                 + (IF Len(a) \in 50..800 THEN 200 ELSE 0)
                 + (IF StartsWhatIs(q) THEN -100 ELSE 50)
  IN  IF sum < 0 THEN 0 ELSE IF sum > 1000 THEN 1000 ELSE sum

ParserReturned == fn = "parse_model_output" /\ fpc \in {"returned", "validated"}

\* The scenario: the raw output of one "What is X?" pair, with max_q = 5.
IsScenario == fn = "parse_model_output" /\ fn_args.raw = RawScenario /\ fn_args.max_q = REQ_MAX_Q

\* C18 as stated: for the raw output
\* '[{"question":"What is X?","answer":"X is Y."}]' with max_q = 5 the direct
\* JSON strategy returns exactly one pair, and the validator gives that pair
\* the confidence 0.45.
C18_ScenarioConfidenceAsStated ==
  /\ (IsScenario /\ ParserReturned) => strategy = 1 /\ Len(fn_ret) = 1
  /\ (IsScenario /\ fpc = "validated") =>
       Len(validated) = 1 /\ validated[1].confidence = 450

\* C18, amended: for the raw output
\* '[{"question":"What is X?","answer":"X is Y."}]' with max_q = 5 the direct
\* JSON strategy returns exactly one pair, the pair of the raw output, and
\* the validator gives that pair (no keywords, an answer shorter than 50
\* characters, a "what is" question) the confidence 0.5 - 0.1 = 0.4.
C18_ScenarioConfidence ==
  /\ (IsScenario /\ ParserReturned) =>
       /\ strategy = 1
       /\ fn_ret = << [ question |-> <<"W", "h", "a", "t", " ", "i", "s", " ", "X", "?">>,
                        answer   |-> <<"X", " ", "i", "s", " ", "Y", ".">> ] >>
  /\ (IsScenario /\ fpc = "validated") =>
       /\ Len(validated) = 1
       /\ validated[1].question = fn_ret[1].question
       /\ validated[1].answer = fn_ret[1].answer
       /\ validated[1].confidence = 400

\* C18's case: the scenario was parsed by the direct JSON strategy and its
\* pair was validated.
C18_Witness ==
  /\ IsScenario
  /\ fpc = "validated"
  /\ strategy = 1
  /\ Len(validated) = 1

\* What each of the four strategies yields for the sanitized output s, in
\* the order of the cascade.
StrategyOutputs(s, max_q) ==
  << DirectJson(s, max_q).out, EmbeddedJson(s, max_q).out,
     QaLines(s, max_q).out, Pairing(s, max_q).out >>

\* The result of the first strategy that yields a pair, or the empty list.
FirstYield(outs) ==
  IF \A k \in 1..Len(outs) : outs[k] = <<>> THEN <<>>
  ELSE outs[MinOf({ k \in 1..Len(outs) : outs[k] # <<>> })]

\* C19: parse_model_output returns the result of the first strategy, in the
\* order direct JSON, embedded JSON, labeled lines, positional pairing, that
\* yields a non-empty list of pairs: a strategy that yields nothing does not
\* end the cascade while a later one would yield a pair, and the result is
\* empty exactly when no strategy yields a pair.
C19_FirstYieldingStrategyWins ==
  ParserReturned =>
    fn_ret = FirstYield(StrategyOutputs(SanitizeRaw(fn_args.raw), fn_args.max_q))

\* C20: parse_model_output returns at most max_q pairs, whichever strategy
\* produced them.
C20_AtMostMaxQPairs == ParserReturned => Len(fn_ret) <= fn_args.max_q

\* C20's case: the labeled lines hold two pairs and max_q = 1 keeps one.
C20_Witness ==
  /\ ParserReturned
  /\ fn_args.raw = RawLabeled
  /\ fn_args.max_q = 1
  /\ strategy = 3
  /\ Len(ParseQaLines(SanitizeRaw(fn_args.raw))) = 2
  /\ Len(fn_ret) = 1

(***************************************************************************)
(* Properties of clean_text.                                               *)
(***************************************************************************)
\* C21: clean_text is idempotent: cleaning a cleaned text returns it
\* unchanged.
C21_CleanIsIdempotent ==
  (fn = "clean_text" /\ fpc = "returned_again") => fn_ret = fn_args.raw

(***************************************************************************)
(* Properties of the extraction as a whole.                                *)
(***************************************************************************)
\* C22: the extraction never returns an empty success: when no paragraph
\* survives cleaning it fails with an error, and what extract_text_chunks
\* returns is a non-empty list of chunks with non-empty text.
C22_NoEmptySuccess ==
  /\ cleaned_paras = <<>> => cpc # "returned"
  /\ cpc = "returned" =>
       /\ chunks # <<>>
       /\ \A c \in 1..Len(chunks) : chunks[c].text # <<>>

(***************************************************************************)
(* Properties of upload(): the order of the chunks and the response.       *)
(***************************************************************************)
\* C24: generation is called for the chunks in chunk order, and once the
\* number of aggregated flashcards has reached the quota no generation call
\* is made and no candidate is added any more.
C24_HaltsAtQuota ==
  [][ /\ \A k \in 1..Len(gen_chunks') :
            /\ k > 1 => gen_chunks'[k - 1] < gen_chunks'[k]
            /\ gen_chunks'[k] <= chunk_i'
      /\ Len(aggregated) >= max_q_total =>
            gen_chunks' = gen_chunks /\ aggregated' = aggregated ]_vars

\* C27: a 200 'ok' response implies that the record was stored, in Mongo or
\* in the file database.
C27_OkImpliesPersisted ==
  response = "200 ok" => persisted \in {"mongo", "file"}

(***************************************************************************)
(* Properties of ParserService.chunk_text.                                 *)
(***************************************************************************)
\* C30: chunk_text terminates for every text, every chunk_size > 0 and
\* every overlap with 0 <= overlap < chunk_size: on every iteration of its
\* loop the start position strictly increases.
C30_StartStrictlyIncreases ==
  [][ (fn = "chunk_text" /\ fpc = "loop") => locals'.start > locals.start ]_vars

(***************************************************************************)
(* Properties of the ML service.                                           *)
(***************************************************************************)
\* generate_flashcards has returned, to /generate or to its direct caller.
FlashcardsReturned ==
  \/ fn = "generate_flashcards" /\ fpc = "returned"
  \/ fn = "generate" /\ fpc = "gf_returned"

\* The model was loaded, its output was not suspicious and gave a valid
\* card, and nothing raised.
ModelSucceeded ==
  /\ fn_args.loaded
  /\ locals.e = "None"
  /\ locals.raw_out # <<"None">>
  /\ ~Suspicious(locals.raw_out)
  /\ ValidatedOutput(locals.raw_out, locals.max_q) # <<>>

\* The cards without the keywords that the enrichment sets.
QuestionsAndAnswers(cards) ==
  [k \in 1..Len(cards) |-> [cards[k] EXCEPT !.keywords = <<>>]]

C29_AtMostMaxQuestions ==
  (fn = "generate" /\ fpc = "returned") => Len(fn_ret.flashcards) <= MAX_QUESTIONS

(***************************************************************************)
(* Properties of _call_model_with_retries.                                 *)
(***************************************************************************)
RetriesCalled == fn = "_call_model_with_retries"

\* The request answered with HTTP 200.
Is200(r) == r.status = 200

\* The request answered with HTTP 200 and a body that is JSON.
Is200Json(r) == r.status = 200 /\ r.body # "not json"

\* C25 as stated: _call_model_with_retries makes at most `attempts`
\* requests; it stops at the first HTTP 200 response, with no request after
\* it, and returns its payload; it returns the empty list once `attempts`
\* requests have failed, and at once when no remote URL is configured.
C25_StopsAtFirst200AsStated ==
  RetriesCalled =>
    /\ Len(locals.requests) <= fn_args.attempts
    /\ \A i \in 1..(Len(locals.requests) - 1) : ~Is200(locals.requests[i])
    /\ (locals.requests # <<>> /\ Is200(locals.requests[Len(locals.requests)])) =>
         fpc = "returned" /\ fn_ret = locals.requests[Len(locals.requests)].cards
    /\ (fpc = "returned" /\ ~fn_args.remote_url) => locals.requests = <<>>

\* C25, amended: _call_model_with_retries makes at most `attempts`
\* requests; it stops at the first HTTP 200 response whose body is JSON,
\* with no request after it, and returns its cards (the empty list for JSON
\* of another format); a 200 response whose body is not JSON is a failed
\* request like a non-200 response or a request exception, unless the
\* ValueError of resp.json() leaves the function; after `attempts` failed
\* requests, and at once when no remote URL is configured, the function
\* returns the empty list (when the local manager returned nothing).
C25_StopsAtFirst200Json ==
  RetriesCalled =>
    /\ Len(locals.requests) <= fn_args.attempts
    /\ \A i \in 1..(Len(locals.requests) - 1) : ~Is200Json(locals.requests[i])
    /\ (locals.requests # <<>> /\ Is200Json(locals.requests[Len(locals.requests)])) =>
         fpc = "returned" /\ fn_ret = locals.requests[Len(locals.requests)].cards
    /\ (locals.requests # <<>> /\ ~Is200Json(locals.requests[Len(locals.requests)])) =>
         /\ fn_ret = <<>>
         /\ fpc = "returned" => Len(locals.requests) = fn_args.attempts
         /\ fpc = "raised" => (Is200(locals.requests[Len(locals.requests)])
                               /\ ~fn_args.json_error_is_request_exception)
    /\ (fpc = "returned" /\ ~fn_args.remote_url) => locals.requests = <<>>
    /\ (fpc = "request" /\ locals.requests = <<>>) => fn_args.remote_url

\* C25's case: two requests failed, one of them with a 200 response that
\* was not JSON, the third was answered with cards, and these were
\* returned.
C25_Witness ==
  /\ RetriesCalled
  /\ fpc = "returned"
  /\ Len(locals.requests) = 3
  /\ locals.requests[1].status = 500
  /\ Is200(locals.requests[2]) /\ ~Is200Json(locals.requests[2])
  /\ Is200Json(locals.requests[3])
  /\ fn_ret = locals.requests[3].cards
  /\ fn_ret # <<>>

(***************************************************************************)
(* Properties of the document server.                                      *)
(***************************************************************************)
\* The ids of the 'card' events sent, in their order.
CardsSent ==
  [k \in 1..Len(SelectSeq(sent, LAMBDA ev : ev.type = "card")) |->
     SelectSeq(sent, LAMBDA ev : ev.type = "card")[k].id]

\* C26: when the stream runs concurrently with the background task of the
\* same deck, every flashcard committed for the deck is sent as a 'card'
\* event exactly once before the final 'complete' event, under every
\* interleaving: once the task is over and the stream, which found the
\* tracking id, sent 'complete', the cards sent are the cards of the deck.
C26_EveryCardSentOnce ==
  (spc = "complete" /\ stream_status # 0 /\ tpc = "done" /\ deck_committed) =>
    CardsSent = [k \in 1..db_cards |-> k]

\* The status of the tracking id is final.
StatusFinal ==
  processing_status # 0 /\ status_of[processing_status] \in {"completed", "error"}

====
